---- MODULE Spec2Model ----
(***************************************************************************)
(* Music store customer support: the Streamlit caller (streamlit_app.py)   *)
(* driving the compiled LangGraph workflow of CustomerQueryGraph.py        *)
(* (summarize_conversation, verify_customer, extract_preferences,          *)
(* supervisor_agent, save_preferences) over per-thread checkpoints and a   *)
(* shared preference store.                                                *)
(*                                                                         *)
(* One browser session is modelled: its st.session_state (threads,         *)
(* current_thread_id, awaiting_verification, messages), the checkpointer   *)
(* state of every thread, the preference store and the position of the     *)
(* handler that is running.  The language model is an oracle: every call   *)
(* returns any value of a small set, or raises.                            *)
(*                                                                         *)
(* Spec is the session from its start.  SpecLookup applies the identity    *)
(* lookup to every combination of arguments, SpecPrefs starts the session  *)
(* over a preference store that earlier sessions have filled,              *)
(* SpecDispatch takes the supervisor stage one hand-off at a time,         *)
(* SpecResponders runs the responders and their tools over the databases,  *)
(* and SpecSingleton interleaves the constructor calls of CustomerDatabase.*)
(***************************************************************************)
EXTENDS Integers, Sequences, FiniteSets, TLC

\* ------------------------------------------------------------------ bounds
MaxThreads == 2
MaxInputs == 3
MaxStored == 11
MaxRows == 6
MaxHandoffs == 2
MaxConstructors == 2
MaxConstructions == 2

ThreadIds == 1..MaxThreads

\* ------------------------------------------------------------- constants
NoneVal == "None"
EmptyDict == [customer_id |-> NoneVal, phone_number |-> NoneVal, email |-> NoneVal]
SystemPrompt == "system_prompt"

CouldNotParse == "Could not parse the response. Please provide the information in the correct format."
PleaseProvide == "Please provide your phone number or email for verification."
ErrorMsg == "I apologize, but I encountered an error processing your request. Please try again."

PreferencesHeader == "## Preferences of user"
\* The string save_preferences compares the answer with (line 72).
Sentinel == "no preferences found."

\* The fixtures with the emails of customer_1 and customer_2 exchanged.
sample_customers_swapped ==
    { [customer_id |-> "customer_1", phone_number |-> "+55 (12) 3923-5555", email |-> "customer2@example.com"],
      [customer_id |-> "customer_2", phone_number |-> "+55 (21) 99876-5432", email |-> "customer1@example.com"],
      [customer_id |-> "customer_3", phone_number |-> "+55 (11) 91234-5678", email |-> "customer3@example.com"] }

\* populate_customers_sample_data
sample_customers ==
    { [customer_id |-> "customer_1", phone_number |-> "+55 (12) 3923-5555", email |-> "customer1@example.com"],
      [customer_id |-> "customer_2", phone_number |-> "+55 (21) 99876-5432", email |-> "customer2@example.com"],
      [customer_id |-> "customer_3", phone_number |-> "+55 (11) 91234-5678", email |-> "customer3@example.com"] }

CustomerIds == { c.customer_id : c \in sample_customers }

\* CustomerData: the structured record the verification model returns; every
\* field is Optional[str].
CustomerData(i, p, e) ==
    [object |-> TRUE, customer_id |-> i, customer_phone_number |-> p, customer_email |-> e]

\* with_structured_output returning None: there is no object to read a field of.
NoObject ==
    [object |-> FALSE, customer_id |-> NoneVal, customer_phone_number |-> NoneVal,
     customer_email |-> NoneVal]

\* What verificationModel.invoke can return: no structured output at all
\* (NoObject), a record of absent fields, a record of empty strings, and
\* records that name a stored or an unknown customer.
Extractions ==
    { NoObject,
      CustomerData(NoneVal, NoneVal, NoneVal),
      CustomerData("", "", ""),
      CustomerData(NoneVal, "+55 (12) 3923-5555", NoneVal),
      CustomerData(NoneVal, NoneVal, "customer1@example.com"),
      CustomerData(NoneVal, NoneVal, "customer2@example.com"),
      CustomerData(NoneVal, "000", NoneVal) }

\* What preferenceModel.invoke can return (response.content): the answer the
\* prompt asks for when there is nothing to record, as it is, in another case
\* with spaces around it, and without its final period; and a sentence to
\* record, as it is and with spaces around it.
PrefResponses ==
    { "No preferences found.", "  NO PREFERENCES FOUND.  ", "No preferences found",
      "Customer likes Jazz.", " Customer likes Jazz. " }

\* ------------------------------------------------------------ pure helpers
\* Python truthiness of an Optional[str] argument: None and "" are falsy.
Truthy(s) == s # NoneVal /\ s # ""

\* Python truthiness of the structured response: a pydantic object is always
\* truthy, only None is falsy.
ObjectTruthy(r) == r.object

\* The lookup with the conditions joined by AND instead of OR.
get_customer_details_and(cid, phone, email) ==
    LET rows == { c \in sample_customers :
                    /\ Truthy(cid) \/ Truthy(phone) \/ Truthy(email)
                    /\ Truthy(cid) => c.customer_id = cid
                    /\ Truthy(phone) => c.phone_number = phone
                    /\ Truthy(email) => c.email = email }
    IN  IF rows = {} THEN { EmptyDict } ELSE rows

\* CustomerDatabase.get_customer_details when the query executes: the rows
\* `fetchone` may return for the OR of the conditions of the truthy
\* arguments; {} when there is no condition or no row.
get_customer_details(cid, phone, email) ==
    LET rows == { c \in sample_customers :
                    \/ Truthy(cid) /\ c.customer_id = cid
                    \/ Truthy(phone) /\ c.phone_number = phone
                    \/ Truthy(email) /\ c.email = email }
    IN  IF rows = {} THEN { EmptyDict } ELSE rows

\* A conditional edge that takes every turn to verify_customer.
should_verify_customer_always(cid) == TRUE

\* should_verify_customer with its test inverted.
should_verify_customer_inverted(cid) == cid # NoneVal

\* CustomerQueryGraph.should_verify_customer
should_verify_customer(cid) == cid = NoneVal

\* Whether an extraction carries a field the lookup can use.
UsableField(r) ==
    Truthy(r.customer_id) \/ Truthy(r.customer_phone_number) \/ Truthy(r.customer_email)

\* The prompt chosen by the fields of the extraction instead of by the
\* truthiness of the object.
InterruptPrompt_by_fields(r) == IF ~UsableField(r) THEN CouldNotParse ELSE PleaseProvide

\* The prompt of the interrupt raised in verify_customer's loop.
InterruptPrompt(r) == IF ~ObjectTruthy(r) THEN CouldNotParse ELSE PleaseProvide

\* str.strip()
Strip(s) ==
    CASE s = "  NO PREFERENCES FOUND.  " -> "NO PREFERENCES FOUND."
      [] s = " Customer likes Jazz. " -> "Customer likes Jazz."
      [] OTHER -> s

\* str.lower()
Lower(s) ==
    CASE s = "No preferences found." -> "no preferences found."
      [] s = "NO PREFERENCES FOUND." -> "no preferences found."
      [] s = "No preferences found" -> "no preferences found"
      [] s = "NO PREFERENCES FOUND" -> "no preferences found"
      [] s = "Customer likes Jazz." -> "customer likes jazz."
      [] s = "Customer likes Jazz" -> "customer likes jazz"
      [] OTHER -> s

\* response.content.strip().lower()
StripLower(s) == Lower(Strip(s))

\* extract_preferences: the digest of the records stored for one identity.
Digest(items) ==
    IF Len(items) = 0 THEN <<>>
    ELSE <<PreferencesHeader>> \o [i \in 1..Len(items) |-> items[i].text]

\* The argument of a verificationModel.invoke: the system message and the
\* contents of the messages that follow it.
InvokeInput(sys, msgs) == [system |-> sys, contents |-> msgs]
NoInvoke == InvokeInput("", <<>>)

Contents(msgs) == [i \in 1..Len(msgs) |-> msgs[i].content]

\* What a handler run shows the user: a reply (the content of a message), a
\* suspension (the prompt of an interrupt) or the apology.
Outcome(k, p, c) == [kind |-> k, prompt |-> p, content |-> c]
NoOutcome == Outcome("none", "", 0)

\* A thread's session, its outstanding prompts and the preference store.
Snapshot(m, c, l, i, s) ==
    [state_messages |-> m, customer_id |-> c, loaded_preferences |-> l, interrupts |-> i, store |-> s]
NoSnapshot == Snapshot(<<>>, NoneVal, <<>>, <<>>, <<>>)

Last(q) == q[Len(q)]

HumanMessage(c) == [role |-> "human", content |-> c]
AIMessage(c) == [role |-> "ai", content |-> c]

\* ------------------------------------------------------------ the databases
\* populate_invoices_sample_data.  An invoice id "invoice_n" is written n, an
\* amount is written in cents and a date "yyyy-mm-dd" as the number yyyymmdd,
\* which orders the dates as the strings are ordered.
sample_invoices ==
    { [invoice_id |-> 1, customer_id |-> "customer_1", amount |-> 15075, date |-> 20231001, employee_name |-> "Alice"],
      [invoice_id |-> 2, customer_id |-> "customer_2", amount |-> 20000, date |-> 20231005, employee_name |-> "Bob"],
      [invoice_id |-> 3, customer_id |-> "customer_3", amount |-> 7550, date |-> 20231008, employee_name |-> "Charlie"],
      [invoice_id |-> 4, customer_id |-> "customer_1", amount |-> 5025, date |-> 20231010, employee_name |-> "Alice"] }

\* The invoices table when n more invoices of customer_1 have been written
\* to Customers.db; the first of them has the amount of invoice_1.
Invoices(n) ==
    sample_invoices \cup
    { [invoice_id |-> 4 + i, customer_id |-> "customer_1",
       amount |-> IF i = 1 THEN 15075 ELSE 1000 * i, date |-> 20231010 + i,
       employee_name |-> "Bob"] : i \in 1..n }

RECURSIVE OrderByDateDesc(_)
\* ORDER BY date DESC: the orders the rows can be returned in.
OrderByDateDesc(rows) ==
    IF rows = {} THEN { <<>> }
    ELSE UNION { { <<r>> \o q : q \in OrderByDateDesc(rows \ { r }) } :
                 r \in { x \in rows : \A y \in rows : x.date >= y.date } }

RECURSIVE OrderByAmountDesc(_)
\* ORDER BY amount DESC: the orders the rows can be returned in; rows of the
\* same amount come in any order.
OrderByAmountDesc(rows) ==
    IF rows = {} THEN { <<>> }
    ELSE UNION { { <<r>> \o q : q \in OrderByAmountDesc(rows \ { r }) } :
                 r \in { x \in rows : \A y \in rows : x.amount >= y.amount } }

\* get_invoices_by_customer_sorted_by_date when the query executes
get_invoices_by_customer_sorted_by_date(table, cid) ==
    OrderByDateDesc({ r \in table : r.customer_id = cid })

\* The invoices of the customer in the order of their dates.
get_invoices_sorted_by_unit_price_by_date(table, cid) ==
    OrderByDateDesc({ r \in table : r.customer_id = cid })

\* get_invoices_sorted_by_unit_price when the query executes
get_invoices_sorted_by_unit_price(table, cid) ==
    OrderByAmountDesc({ r \in table : r.customer_id = cid })

\* get_employee_name_by_invoice_and_customer_id when the query executes:
\* row[0] of the row fetchone returns, "" when there is none
get_employee_name_by_invoice_and_customer_id(table, iid, cid) ==
    LET rows == { r \in table : r.invoice_id = iid /\ r.customer_id = cid }
    IN  IF rows = {} THEN { "" } ELSE { r.employee_name : r \in rows }

\* The catalog of MusicDatabase with n artists, genres, albums and tracks.  A
\* name or title is written as the number that gives its place in the order
\* of the names; every album is of artist 1 and every track of genre 1.
Catalog(n) ==
    [engine |-> TRUE,
     Artist |-> { [ArtistId |-> i, Name |-> i] : i \in 1..n },
     Genre |-> { [GenreId |-> i, Name |-> i] : i \in 1..n },
     Album |-> { [AlbumId |-> i, Title |-> i, ArtistId |-> 1] : i \in 1..n },
     Track |-> { [TrackId |-> i, Name |-> i, AlbumId |-> i, GenreId |-> 1] : i \in 1..n }]

\* db_engine when get_chinook_db has failed: it is left None.
NoEngine == [engine |-> FALSE, Artist |-> {}, Genre |-> {}, Album |-> {}, Track |-> {}]

\* The number of rows the queries of MusicDatabase ask for.
Limit == 5

\* A query without a LIMIT clause.
Limited_unlimited(rows, n) == { rows }

\* LIMIT n on a query with no ORDER BY: any n of the rows, all of them when
\* there are no more than n.
Limited(rows, n) ==
    IF Cardinality(rows) <= n THEN { rows }
    ELSE { s \in SUBSET rows : Cardinality(s) = n }

RECURSIVE OrderAsc(_)
\* ORDER BY Name ASC on a column of names.
OrderAsc(names) ==
    IF names = {} THEN <<>>
    ELSE LET least == CHOOSE x \in names : \A y \in names : x <= y
         IN  <<least>> \o OrderAsc(names \ { least })

\* ORDER BY ... LIMIT n: the first n of the ordered rows.
First(q, n) == SubSeq(q, 1, IF Len(q) <= n THEN Len(q) ELSE n)

\* The empty search term, of which every name is a match of LIKE '%%'.
EmptyTerm == 0

\* name LIKE '%term%' for the empty term and for a term that is a whole name.
Like(name, term) == term = EmptyTerm \/ name = term

\* Album JOIN Artist; the key of the album keeps rows of equal columns
\* apart.
AlbumRows(db) ==
    { [id |-> q[1].AlbumId, album_title |-> q[1].Title, artist_name |-> q[2].Name] :
      q \in { p \in db.Album \X db.Artist : p[1].ArtistId = p[2].ArtistId } }

\* Track JOIN Album JOIN Artist
TrackRows(db) ==
    { [id |-> q[1].TrackId, track_name |-> q[1].Name, album_title |-> q[2].Title,
       artist_name |-> q[3].Name] :
      q \in { p \in db.Track \X db.Album \X db.Artist :
                p[1].AlbumId = p[2].AlbumId /\ p[2].ArtistId = p[3].ArtistId } }

\* Track JOIN Genre JOIN Album JOIN Artist
SongRows(db) ==
    { [id |-> q[1].TrackId, track_name |-> q[1].Name, genre_name |-> q[4].Name,
       album_title |-> q[2].Title, artist_name |-> q[3].Name] :
      q \in { p \in db.Track \X db.Album \X db.Artist \X db.Genre :
                /\ p[1].AlbumId = p[2].AlbumId
                /\ p[2].ArtistId = p[3].ArtistId
                /\ p[1].GenreId = p[4].GenreId } }

\* The tools of the music catalog agent and of the invoice agent.
CatalogTools ==
    { "get_albums_by_artist", "get_tracks_by_artist", "get_songs_by_genre",
      "check_for_track", "check_for_album", "check_for_artist",
      "get_all_artists", "get_all_genres", "get_all_albums",
      "search_tracks", "search_albums" }
InvoiceTools ==
    { "get_invoices_by_customer_sorted_by_date", "get_invoices_sorted_by_unit_price",
      "get_employee_name_by_invoice_and_customer_id" }

\* A call of a tool: the name or search term given to a catalog tool, the
\* invoice id (0 when the tool takes none) and the customer id given to an
\* invoice tool.
Call(tool, name, iid, cid) == [tool |-> tool, name |-> name, invoice_id |-> iid, customer_id |-> cid]
NoCall == Call("none", 0, 0, NoneVal)

\* What a call returns: it raised, or it returned a value, after an error of
\* the store that it caught or after none.
Returned(v) == [raised |-> FALSE, error |-> FALSE, value |-> v]
ReturnedOnError(v) == [raised |-> FALSE, error |-> TRUE, value |-> v]
Raised == [raised |-> TRUE, error |-> FALSE, value |-> <<>>]
NoResult == Returned(<<>>)

\* The methods of MusicDatabase on an engine that is set up: the values the
\* call can return.
MusicDatabase(db, tool, name) ==
    CASE tool = "get_albums_by_artist" ->
            Limited({ r \in AlbumRows(db) : r.artist_name = name }, Limit)
      [] tool = "get_tracks_by_artist" ->
            Limited({ r \in TrackRows(db) : r.artist_name = name }, Limit)
      [] tool = "get_songs_by_genre" ->
            Limited({ r \in SongRows(db) : r.genre_name = name }, Limit)
      [] tool = "check_for_track" -> { \E t \in db.Track : t.Name = name }
      [] tool = "check_for_album" -> { \E a \in db.Album : a.Title = name }
      [] tool = "check_for_artist" -> { \E a \in db.Artist : a.Name = name }
      [] tool = "get_all_artists" -> { First(OrderAsc({ a.Name : a \in db.Artist }), Limit) }
      [] tool = "get_all_genres" -> { First(OrderAsc({ g.Name : g \in db.Genre }), Limit) }
      [] tool = "get_all_albums" -> { First(OrderAsc({ a.Title : a \in db.Album }), Limit) }
      [] tool = "search_tracks" ->
            Limited({ r \in TrackRows(db) : \/ Like(r.track_name, name)
                                            \/ Like(r.album_title, name)
                                            \/ Like(r.artist_name, name) }, Limit)
      [] tool = "search_albums" ->
            Limited({ r \in AlbumRows(db) : Like(r.album_title, name) \/ Like(r.artist_name, name) },
                    Limit)

\* The query methods of CustomerDatabase when the query executes: the values
\* the call can return.
CustomerDatabase(table, tool, iid, cid) ==
    CASE tool = "get_invoices_by_customer_sorted_by_date" ->
            get_invoices_by_customer_sorted_by_date(table, cid)
      [] tool = "get_invoices_sorted_by_unit_price" ->
            get_invoices_sorted_by_unit_price(table, cid)
      [] tool = "get_employee_name_by_invoice_and_customer_id" ->
            get_employee_name_by_invoice_and_customer_id(table, iid, cid)

\* The same methods when sqlite3 raises an Error: it is caught and printed
\* and the empty value is returned.
CustomerDatabase_error(tool) ==
    IF tool = "get_employee_name_by_invoice_and_customer_id" THEN "" ELSE <<>>

\* The contents of the Chinook database the engine serves.
Chinook == Catalog(MaxRows)

\* ------------------------------------------------------------------- state
VARIABLES
    \* st.session_state
    threads,                \* number of entries of st.session_state.threads
    current_thread_id,
    awaiting_verification,
    messages,               \* the displayed transcript of each thread
    \* the checkpointer (InMemorySaver), per thread
    state_messages,         \* state["messages"]
    customer_id,            \* state["customer_id"], NoneVal when absent
    loaded_preferences,     \* state["loaded_preferences"]
    next_node,              \* "fresh", "END" or the node the thread is pending at
    interrupts,             \* the outstanding interrupt prompts of the thread
    resumes,                \* the resume values stored for the pending task
    \* the preference store (InMemoryStore)
    store,
    uuid,
    \* the running handler
    pc,
    inputs,
    user_input,
    sent,
    response,
    exception,              \* what the handler's except clause caught, "none" if nothing
    entry,                  \* the node at which this invocation entered the graph
    structured_response,
    customerDetails,
    scratch,                \* the resume values of the running task
    idx,                    \* the running task's interrupt counter
    null_resume,            \* the value of Command(resume=...) not yet consumed, 0 if none
    interrupt_result,
    \* observation
    extract_input,          \* the argument of the last verificationModel.invoke
    stages,                 \* per thread: the stages run in its current turn
    suspended_at_submit,    \* the thread had an outstanding interrupt at submit
    snapshot,               \* the thread's session and the store at submit
    outcome,                \* what the last handler showed the user
    store_error,            \* get_customer_details caught an sqlite3.Error in this run
    pref_response,          \* response.content of the last preferenceModel.invoke
    responder_invocations,  \* hand-offs to a responder made by the running supervisor
    \* the databases and the responders
    invoices,               \* the rows of the invoices table of Customers.db
    db_engine,              \* MusicDatabase.db_engine: NoneVal or the catalog it serves
    running_agents,         \* the responders that are in progress
    tool_call,              \* the last call of a tool by a responder
    tool_result,            \* what that call returned
    \* the CustomerDatabase class and its constructor calls
    cls_instance,           \* CustomerDatabase._instance: NoInstance or the number of an object
    cls_lock,               \* CustomerDatabase._lock: Unlocked or the thread that holds it
    initialized,            \* per object: its _initialized attribute, "unset" while it has none
    setup_runs,             \* how many times _setup_database has run
    returned,               \* the objects that completed constructor calls have yielded
    ctor                    \* per constructing thread: where it is in CustomerDatabase()

ui_vars == <<threads, current_thread_id, awaiting_verification, messages>>
ck_vars == <<state_messages, customer_id, loaded_preferences, next_node, interrupts, resumes>>
store_vars == <<store, uuid>>
verify_vars == <<structured_response, customerDetails, scratch, idx, null_resume, interrupt_result>>
run_vars == <<pc, inputs, user_input, sent, response, exception, entry>>
singleton_vars == <<cls_instance, cls_lock, initialized, setup_runs, returned, ctor>>
db_vars == <<invoices, db_engine, singleton_vars>>
agent_vars == <<db_vars, running_agents, tool_call, tool_result>>
log_vars == <<store_error, pref_response, responder_invocations, agent_vars>>
obs_vars == <<extract_input, stages, suspended_at_submit, snapshot, outcome, log_vars>>

vars == <<ui_vars, ck_vars, store_vars, verify_vars, run_vars, obs_vars>>

Stages == { "summarize_conversation", "verify_customer", "extract_preferences",
            "supervisor_agent", "save_preferences" }

T == current_thread_id

Suspended(t) == Len(interrupts[t]) > 0

\* ------------------------------------------------- CustomerDatabase()
\* The threads that construct CustomerDatabase in the process.
Constructors == 1..MaxConstructors

\* cls._instance is None
NoInstance == 0

\* The lock is held by no thread.
Unlocked == 0

\* A thread that is not in a constructor call; self is the object that
\* __new__ returned to it in its last call.
CallerAt(p, o, n) == [pc |-> p, self |-> o, calls |-> n]

\* populate_invoices_sample_data: one INSERT of the four sample rows in one
\* transaction; a row whose id is in the table already fails the statement
\* with an sqlite3.Error that is printed, and the table is left as it was.
populate_invoices_sample_data(table) ==
    IF \E r \in table : \E s \in sample_invoices : r.invoice_id = s.invoice_id
    THEN table
    ELSE table \cup sample_invoices

\* The process has constructed CustomerDatabase once (CustomerQueryGraph
\* line 23) and no constructor call is in progress.
SingletonConstructed ==
    /\ cls_instance = 1
    /\ cls_lock = Unlocked
    /\ initialized = <<"True">>
    /\ setup_runs = 1
    /\ returned = {1}
    /\ ctor = [c \in Constructors |-> CallerAt("idle", 0, 0)]

\* -------------------------------------------------------------------- Init
\* initialize_session_state and a freshly compiled graph
Init ==
    /\ threads = 1
    /\ current_thread_id = 1
    /\ awaiting_verification = FALSE
    /\ messages = [t \in ThreadIds |-> <<>>]
    /\ state_messages = [t \in ThreadIds |-> <<>>]
    /\ customer_id = [t \in ThreadIds |-> NoneVal]
    /\ loaded_preferences = [t \in ThreadIds |-> <<>>]
    /\ next_node = [t \in ThreadIds |-> "fresh"]
    /\ interrupts = [t \in ThreadIds |-> <<>>]
    /\ resumes = [t \in ThreadIds |-> <<>>]
    /\ store = [c \in CustomerIds |-> <<>>]
    /\ uuid = 0
    /\ pc = "idle"
    /\ inputs = 0
    /\ user_input = 0
    /\ sent = "none"
    /\ response = "none"
    /\ exception = "none"
    /\ entry = "none"
    /\ structured_response = NoObject
    /\ customerDetails = EmptyDict
    /\ scratch = <<>>
    /\ idx = 0
    /\ null_resume = 0
    /\ interrupt_result = 0
    /\ extract_input = NoInvoke
    /\ stages = [t \in ThreadIds |-> <<>>]
    /\ suspended_at_submit = FALSE
    /\ snapshot = NoSnapshot
    /\ outcome = NoOutcome
    /\ store_error = FALSE
    /\ pref_response = ""
    /\ responder_invocations = 0
    /\ invoices = sample_invoices
    /\ db_engine = Chinook
    /\ running_agents = {}
    /\ tool_call = NoCall
    /\ tool_result = NoResult
    /\ SingletonConstructed

\* ------------------------------------------------------------ the sidebar
\* render_sidebar: the "Add New Thread" button
AddThread ==
    /\ pc = "idle"
    /\ threads < MaxThreads
    /\ threads' = threads + 1
    /\ UNCHANGED <<current_thread_id, awaiting_verification, messages>>
    /\ UNCHANGED <<ck_vars, store_vars, verify_vars, run_vars, obs_vars>>

\* render_sidebar: the "Select Conversation Thread" box
SelectThread(t) ==
    /\ pc = "idle"
    /\ t \in 1..threads
    /\ t # current_thread_id
    /\ current_thread_id' = t
    /\ UNCHANGED <<threads, awaiting_verification, messages>>
    /\ UNCHANGED <<ck_vars, store_vars, verify_vars, run_vars, obs_vars>>

\* ---------------------------------------------------- handle_user_input
\* The part of every submission that does not depend on how it is sent: the
\* input is shown and appended to the displayed transcript.
Accept ==
    /\ pc = "idle"
    /\ inputs < MaxInputs
    /\ inputs' = inputs + 1
    /\ user_input' = inputs + 1
    /\ messages' = [messages EXCEPT ![T] = Append(@, HumanMessage(inputs + 1))]
    /\ suspended_at_submit' = Suspended(T)
    /\ snapshot' = Snapshot(state_messages[T], customer_id[T], loaded_preferences[T],
                            interrupts[T], store)
    /\ outcome' = NoOutcome
    /\ extract_input' = NoInvoke
    /\ UNCHANGED <<threads, current_thread_id, awaiting_verification>>
    /\ UNCHANGED <<store_vars, structured_response, customerDetails, interrupt_result, log_vars>>

\* Whether handle_user_input sends the input as Command(resume=...).
SendAsResume == awaiting_verification

\* invoke({"messages": [HumanMessage(user_input)]}): the message is applied to
\* the thread's latest checkpoint, what was pending there is dropped, and the
\* graph is entered at START.
SubmitNew ==
    /\ Accept
    /\ ~SendAsResume
    /\ sent' = "new"
    /\ state_messages' = [state_messages EXCEPT ![T] = Append(@, HumanMessage(inputs + 1))]
    /\ interrupts' = [interrupts EXCEPT ![T] = <<>>]
    /\ resumes' = [resumes EXCEPT ![T] = <<>>]
    /\ next_node' = [next_node EXCEPT ![T] = "summarize_conversation"]
    /\ stages' = [stages EXCEPT ![T] = <<>>]
    /\ pc' = "summarize_conversation"
    /\ entry' = "summarize_conversation"
    /\ response' = "none"
    /\ exception' = "none"
    /\ scratch' = <<>>
    /\ idx' = 0
    /\ null_resume' = 0
    /\ UNCHANGED <<customer_id, loaded_preferences>>

\* A resume that also appends the input to the session's messages.
ResumeMessages_appending(msgs, input) == Append(msgs, HumanMessage(input))

\* The session's messages after Command(resume=user_input) is applied: the
\* command carries no update of the state.
ResumeMessages(msgs, input) == msgs

\* invoke(Command(resume=user_input)) on a thread that is pending at a node:
\* the pending task is run again from its first statement, with the resume
\* values stored for it and the new value.
SubmitResumePending ==
    /\ Accept
    /\ SendAsResume
    /\ next_node[T] \in Stages
    /\ sent' = "resume"
    /\ pc' = next_node[T]
    /\ entry' = next_node[T]
    /\ exception' = "none"
    /\ scratch' = resumes[T]
    /\ idx' = 0
    /\ null_resume' = inputs + 1
    /\ stages' = [stages EXCEPT ![T] = IF Suspended(T) THEN @ ELSE <<>>]
    /\ response' = "none"
    /\ state_messages' = [state_messages EXCEPT ![T] = ResumeMessages(@, inputs + 1)]
    /\ UNCHANGED <<customer_id, loaded_preferences, next_node, interrupts, resumes>>

\* invoke(Command(resume=user_input)) on a thread whose last run reached END:
\* nothing is pending, the state of the checkpoint is returned as it is.
SubmitResumeAtEnd ==
    /\ Accept
    /\ SendAsResume
    /\ next_node[T] = "END"
    /\ sent' = "resume"
    /\ pc' = "respond"
    /\ entry' = "none"
    /\ exception' = "none"
    /\ response' = "values"
    /\ stages' = [stages EXCEPT ![T] = <<>>]
    /\ scratch' = <<>>
    /\ idx' = 0
    /\ null_resume' = 0
    /\ UNCHANGED ck_vars

\* invoke(Command(resume=user_input)) on a thread that has no checkpoint: the
\* call raises, or returns no values, or enters the graph at START with no
\* message.
SubmitResumeFresh ==
    /\ Accept
    /\ SendAsResume
    /\ next_node[T] = "fresh"
    /\ sent' = "resume"
    /\ stages' = [stages EXCEPT ![T] = <<>>]
    /\ scratch' = <<>>
    /\ idx' = 0
    /\ null_resume' = 0
    /\ \/ /\ pc' = "except"
          /\ entry' = "none"
          /\ exception' = "EmptyInputError"
          /\ response' = "none"
          /\ UNCHANGED ck_vars
       \/ /\ pc' = "respond"
          /\ entry' = "none"
          /\ exception' = "none"
          /\ response' = "empty"
          /\ UNCHANGED ck_vars
       \/ /\ pc' = "summarize_conversation"
          /\ entry' = "summarize_conversation"
          /\ exception' = "none"
          /\ response' = "none"
          /\ next_node' = [next_node EXCEPT ![T] = "summarize_conversation"]
          /\ UNCHANGED <<state_messages, customer_id, loaded_preferences, interrupts, resumes>>

\* ------------------------------------------------------------ the stages
\* The arguments of SummarizationNode in build_graph.
max_tokens == 8000
max_tokens_before_summary == 4000
max_summary_tokens == 4000

\* What token_counter gives for one message: the messages of the sessions
\* modelled are long ones.
MessageTokens == 3000

\* token_counter=count_tokens_approximately, over a list of messages
count_tokens_approximately(msgs) == Len(msgs) * MessageTokens

\* The summary message the summarization model writes.
SummaryMessage == [role |-> "system", content |-> 0]

\* What SummarizationNode makes of the messages: once they count more than
\* max_tokens_before_summary, a summary in the place of all but the last.
summarize_messages(msgs) ==
    IF count_tokens_approximately(msgs) > max_tokens_before_summary
    THEN <<SummaryMessage, Last(msgs)>>
    ELSE msgs

\* The key SummarizationNode returns the result under when
\* output_messages_key is not given, as in build_graph.
output_messages_key == "summarized_messages"

\* A summarization node that writes its result over the messages.
SummarizedState_overwriting(msgs) == summarize_messages(msgs)

\* state["messages"] after the update of the summarization node is applied:
\* the update is written to the keys it names, and GraphInnerState has no
\* key "summarized_messages".
SummarizedState(msgs) ==
    IF output_messages_key = "messages" THEN summarize_messages(msgs) ELSE msgs

\* summarize_conversation, then the conditional edge of build_graph
SummarizeConversation ==
    /\ pc = "summarize_conversation"
    /\ LET nxt == IF should_verify_customer(customer_id[T])
                  THEN "verify_customer" ELSE "extract_preferences"
       IN  /\ pc' = nxt
           /\ next_node' = [next_node EXCEPT ![T] = nxt]
    /\ stages' = [stages EXCEPT ![T] = Append(@, "summarize_conversation")]
    /\ state_messages' = [state_messages EXCEPT ![T] = SummarizedState(@)]
    /\ UNCHANGED <<customer_id, loaded_preferences, interrupts, resumes>>
    /\ UNCHANGED <<ui_vars, store_vars, verify_vars>>
    /\ UNCHANGED <<inputs, user_input, sent, response, exception, entry>>
    /\ UNCHANGED <<extract_input, suspended_at_submit, snapshot, outcome, log_vars>>

\* verify_customer, lines 33-38: the extraction over state["messages"]
VerifyCustomer ==
    /\ pc = "verify_customer"
    /\ \E r \in Extractions : structured_response' = r
    /\ extract_input' = InvokeInput(SystemPrompt, Contents(state_messages[T]))
    /\ stages' = [stages EXCEPT ![T] = Append(@, "verify_customer")]
    /\ pc' = "verify_lookup"
    /\ UNCHANGED <<ui_vars, ck_vars, store_vars>>
    /\ UNCHANGED <<customerDetails, scratch, idx, null_resume, interrupt_result>>
    /\ UNCHANGED <<inputs, user_input, sent, response, exception, entry, suspended_at_submit, snapshot, outcome, log_vars>>

\* get_customer_details, lines 160-163: an sqlite3.Error of the query is
\* caught and printed, and the result is the empty dict.
get_customer_details_error == EmptyDict

\* verify_customer, lines 41-45 and 59-63: reading the fields of the response
\* raises when there is no object, otherwise the lookup, which returns a row
\* or {} or swallows an error of the store
VerifyLookup ==
    /\ pc = "verify_lookup"
    /\ IF ~structured_response.object
       THEN /\ pc' = "except"
            /\ exception' = "AttributeError"
            /\ UNCHANGED customerDetails
            /\ UNCHANGED store_error
       ELSE /\ \/ /\ \E d \in get_customer_details(structured_response.customer_id,
                                                   structured_response.customer_phone_number,
                                                   structured_response.customer_email) :
                          customerDetails' = d
                  /\ UNCHANGED store_error
               \/ /\ customerDetails' = get_customer_details_error
                  /\ store_error' = TRUE
            /\ pc' = "verify_while"
            /\ UNCHANGED exception
    /\ UNCHANGED <<ui_vars, ck_vars, store_vars>>
    /\ UNCHANGED <<structured_response, scratch, idx, null_resume, interrupt_result>>
    /\ UNCHANGED <<inputs, user_input, sent, response, entry>>
    /\ UNCHANGED <<extract_input, stages, suspended_at_submit, snapshot, outcome>>
    /\ UNCHANGED <<pref_response, responder_invocations, agent_vars>>

\* verify_customer returning None as customer_id.
ReturnedCustomerId_none(details) == NoneVal

\* verify_customer returning the id of the first stored customer.
ReturnedCustomerId_first(details) == "customer_1"

\* What verify_customer returns as customer_id (line 66).
ReturnedCustomerId(details) == details.customer_id

\* verify_customer, line 46 false and line 66: the node returns, the state is
\* updated and the graph follows the edge to extract_preferences
VerifyReturn ==
    /\ pc = "verify_while"
    /\ customerDetails # EmptyDict
    /\ customer_id' = [customer_id EXCEPT ![T] = ReturnedCustomerId(customerDetails)]
    /\ next_node' = [next_node EXCEPT ![T] = "extract_preferences"]
    /\ interrupts' = [interrupts EXCEPT ![T] = <<>>]
    /\ resumes' = [resumes EXCEPT ![T] = <<>>]
    /\ pc' = "extract_preferences"
    /\ UNCHANGED <<state_messages, loaded_preferences>>
    /\ UNCHANGED <<ui_vars, store_vars, verify_vars>>
    /\ UNCHANGED <<inputs, user_input, sent, response, exception, entry, obs_vars>>

\* verify_customer, lines 47-51, the interrupt has a resume value: one stored
\* for this position by an earlier resume, or the one just submitted
VerifyInterruptResumed ==
    /\ pc = "verify_while"
    /\ customerDetails = EmptyDict
    /\ \/ /\ idx < Len(scratch)
          /\ interrupt_result' = scratch[idx + 1]
          /\ UNCHANGED <<scratch, null_resume>>
       \/ /\ idx >= Len(scratch)
          /\ null_resume # 0
          /\ interrupt_result' = null_resume
          /\ scratch' = Append(scratch, null_resume)
          /\ null_resume' = 0
    /\ idx' = idx + 1
    /\ pc' = "verify_reextract"
    /\ UNCHANGED <<ui_vars, ck_vars, store_vars, structured_response, customerDetails>>
    /\ UNCHANGED <<inputs, user_input, sent, response, exception, entry, obs_vars>>

\* An interrupt raised on top of the one the resume answered.
RaiseInterrupt_keeping(old, prompt) == Append(old, prompt)

\* The interrupts outstanding on a thread once its task raises one more.
RaiseInterrupt(old, prompt) == <<prompt>>

\* verify_customer, lines 47-51, the interrupt has no resume value: the run
\* stops, the prompt and the task's resume values are stored with the thread
VerifyInterruptRaised ==
    /\ pc = "verify_while"
    /\ customerDetails = EmptyDict
    /\ idx >= Len(scratch)
    /\ null_resume = 0
    /\ interrupts' = [interrupts EXCEPT ![T] = RaiseInterrupt(@, InterruptPrompt(structured_response))]
    /\ resumes' = [resumes EXCEPT ![T] = scratch]
    /\ response' = "interrupt"
    /\ pc' = "respond"
    /\ UNCHANGED <<state_messages, customer_id, loaded_preferences, next_node>>
    /\ UNCHANGED <<ui_vars, store_vars, verify_vars>>
    /\ UNCHANGED <<inputs, user_input, sent, exception, entry, obs_vars>>

\* The re-extraction given the message history in front of the resume value.
ReExtractMessages_with_history(history, result) == Contents(history) \o <<result>>

\* The messages verify_customer passes after the system message at line 53.
ReExtractMessages(history, result) == <<result>>

\* verify_customer, lines 53-58: the extraction over the resume value
VerifyReExtract ==
    /\ pc = "verify_reextract"
    /\ \E r \in Extractions : structured_response' = r
    /\ extract_input' = InvokeInput(SystemPrompt, ReExtractMessages(state_messages[T], interrupt_result))
    /\ pc' = "verify_lookup"
    /\ UNCHANGED <<ui_vars, ck_vars, store_vars>>
    /\ UNCHANGED <<customerDetails, scratch, idx, null_resume, interrupt_result>>
    /\ UNCHANGED <<inputs, user_input, sent, response, exception, entry, stages, suspended_at_submit, snapshot, outcome, log_vars>>

\* The limit of a store.search that names none.
SearchLimit == 10

Min(a, b) == IF a <= b THEN a ELSE b

\* store.search((customer_id, "preferences")): the items of the namespace in
\* the order they were put, up to the limit of the search.
Items(cid) ==
    IF cid \in DOMAIN store
    THEN SubSeq(store[cid], 1, Min(Len(store[cid]), SearchLimit))
    ELSE <<>>

\* extract_preferences
ExtractPreferences ==
    /\ pc = "extract_preferences"
    /\ loaded_preferences' = [loaded_preferences EXCEPT ![T] = Digest(Items(customer_id[T]))]
    /\ next_node' = [next_node EXCEPT ![T] = "supervisor_agent"]
    /\ stages' = [stages EXCEPT ![T] = Append(@, "extract_preferences")]
    /\ pc' = "supervisor_agent"
    /\ UNCHANGED <<state_messages, customer_id, interrupts, resumes>>
    /\ UNCHANGED <<ui_vars, store_vars, verify_vars>>
    /\ UNCHANGED <<inputs, user_input, sent, response, exception, entry>>
    /\ UNCHANGED <<extract_input, suspended_at_submit, snapshot, outcome, log_vars>>

\* GraphInnerState.remaining_steps: declared with the default 10; no code
\* of the repository reads or writes it.
remaining_steps == 10

\* The recursion limit of an invoke whose config names none.
RecursionLimit == 25

\* The steps the supervisor's graph has taken once the supervisor decides
\* after n hand-offs: its own first step and two steps (the responder, the
\* supervisor again) for each hand-off.
SupervisorSteps(n) == 2 * n + 1

\* supervisor_agent: the supervisor hands the task to a responder (the music
\* catalog agent or the invoice agent), which runs and hands back
SupervisorDelegates ==
    /\ pc = "supervisor_agent"
    /\ SupervisorSteps(responder_invocations + 1) <= RecursionLimit
    /\ responder_invocations' = responder_invocations + 1
    /\ UNCHANGED <<ui_vars, ck_vars, store_vars, verify_vars, run_vars>>
    /\ UNCHANGED <<extract_input, stages, suspended_at_submit, snapshot, outcome>>
    /\ UNCHANGED <<store_error, pref_response, agent_vars>>

\* supervisor_agent: the supervisor hands off once more than the recursion
\* limit allows and the graph raises GraphRecursionError
SupervisorOutOfSteps ==
    /\ pc = "supervisor_agent"
    /\ SupervisorSteps(responder_invocations + 1) > RecursionLimit
    /\ pc' = "except"
    /\ exception' = "GraphRecursionError"
    /\ UNCHANGED <<ui_vars, ck_vars, store_vars, verify_vars>>
    /\ UNCHANGED <<inputs, user_input, sent, response, entry, obs_vars>>

\* supervisor_agent: the supervisor answers; its answer is the last message
\* of the state
SupervisorAgent ==
    /\ pc = "supervisor_agent"
    /\ running_agents = {}
    /\ state_messages' = [state_messages EXCEPT ![T] = Append(@, AIMessage(user_input))]
    /\ next_node' = [next_node EXCEPT ![T] = "save_preferences"]
    /\ stages' = [stages EXCEPT ![T] = Append(@, "supervisor_agent")]
    /\ responder_invocations' = 0
    /\ pc' = "save_preferences"
    /\ UNCHANGED <<customer_id, loaded_preferences, interrupts, resumes>>
    /\ UNCHANGED <<ui_vars, store_vars, verify_vars>>
    /\ UNCHANGED <<inputs, user_input, sent, response, exception, entry>>
    /\ UNCHANGED <<extract_input, suspended_at_submit, snapshot, outcome>>
    /\ UNCHANGED <<store_error, pref_response, agent_vars>>

\* save_preferences, lines 58-61: the last HumanMessage of state["messages"],
\* a message of no role when there is none.
last_human_message(msgs) ==
    LET humans == { i \in 1..Len(msgs) : msgs[i].role = "human" }
    IN  IF humans = {} THEN [role |-> "none", content |-> 0]
        ELSE msgs[CHOOSE i \in humans : \A j \in humans : j <= i]

\* A put that replaces what the namespace holds.
put_replacing(items, key, value) == <<[id |-> key, text |-> value]>>

\* store.put(namespace, key, {"text": value}) under a key the namespace does
\* not hold yet: the item is added behind the items of the namespace.
put(items, key, value) == Append(items, [id |-> key, text |-> value])

\* save_preferences, then the graph ends and invoke returns the state
SavePreferences ==
    /\ pc = "save_preferences"
    /\ \E r \in PrefResponses :
          /\ pref_response' = r
          /\ IF StripLower(r) # Sentinel /\ customer_id[T] \in DOMAIN store
             THEN /\ store' = [store EXCEPT ![customer_id[T]] = put(@, uuid + 1, Strip(r))]
                  /\ uuid' = uuid + 1
             ELSE UNCHANGED <<store, uuid>>
    /\ next_node' = [next_node EXCEPT ![T] = "END"]
    /\ stages' = [stages EXCEPT ![T] = Append(@, "save_preferences")]
    /\ response' = "values"
    /\ pc' = "respond"
    /\ UNCHANGED <<state_messages, customer_id, loaded_preferences, interrupts, resumes>>
    /\ UNCHANGED <<ui_vars, verify_vars>>
    /\ UNCHANGED <<inputs, user_input, sent, exception, entry>>
    /\ UNCHANGED <<extract_input, suspended_at_submit, snapshot, outcome>>
    /\ UNCHANGED <<store_error, responder_invocations, agent_vars>>

\* A call of a language model raises (the summarization model once the
\* messages count more than max_tokens_before_summary, verify_customer lines
\* 33 and 53, the supervisor, save_preferences line 68): the node fails,
\* nothing it did is stored, the thread stays pending at the node.
StageRaises ==
    /\ \/ pc \in { "verify_customer", "verify_reextract", "supervisor_agent", "save_preferences" }
       \/ /\ pc = "summarize_conversation"
          /\ count_tokens_approximately(state_messages[T]) > max_tokens_before_summary
    /\ pc' = "except"
    /\ exception' = "ModelError"
    /\ UNCHANGED <<ui_vars, ck_vars, store_vars, verify_vars>>
    /\ UNCHANGED <<inputs, user_input, sent, response, entry, obs_vars>>

\* ------------------------------------------- handle_user_input, the end
\* The value of awaiting_verification after line 130.
AfterInvoke == IF sent = "resume" THEN FALSE ELSE awaiting_verification

\* The handler returns: the locals of the run are gone.
Return ==
    /\ pc' = "idle"
    /\ response' = "none"
    /\ exception' = "none"
    /\ entry' = "none"
    /\ structured_response' = NoObject
    /\ customerDetails' = EmptyDict
    /\ scratch' = <<>>
    /\ idx' = 0
    /\ null_resume' = 0
    /\ interrupt_result' = 0
    /\ extract_input' = NoInvoke
    /\ snapshot' = NoSnapshot
    /\ store_error' = FALSE
    /\ pref_response' = ""
    /\ responder_invocations' = 0
    /\ running_agents' = {}
    /\ tool_call' = NoCall
    /\ tool_result' = NoResult
    /\ UNCHANGED db_vars
    /\ UNCHANGED <<ck_vars, store_vars, inputs, user_input, sent, stages, suspended_at_submit>>

\* A handler that keeps the prompt of the interrupt in the transcript.
AfterInterrupt_appending(msgs) == Append(msgs, AIMessage(0))

\* The thread's transcript after lines 139-142: the prompt is written to the
\* page with st.markdown and is not appended to st.session_state.messages.
AfterInterrupt(msgs) == msgs

\* lines 139-142: the response carries an interrupt
RespondInterrupt ==
    /\ pc = "respond"
    /\ response = "interrupt"
    /\ awaiting_verification' = TRUE
    /\ outcome' = Outcome("suspended", Last(interrupts[T]), 0)
    /\ messages' = [messages EXCEPT ![T] = AfterInterrupt(@)]
    /\ Return
    /\ UNCHANGED <<threads, current_thread_id>>

\* lines 143-146: the last message of the returned state is the reply
RespondReply ==
    /\ pc = "respond"
    /\ response = "values"
    /\ awaiting_verification' = AfterInvoke
    /\ outcome' = Outcome("reply", "", Last(state_messages[T]).content)
    /\ messages' = [messages EXCEPT ![T] = Append(@, AIMessage(Last(state_messages[T]).content))]
    /\ Return
    /\ UNCHANGED <<threads, current_thread_id>>

\* lines 130 and 145 on a response without messages: response["messages"]
\* raises after the flag was cleared
RespondNoMessages ==
    /\ pc = "respond"
    /\ response = "empty"
    /\ awaiting_verification' = AfterInvoke
    /\ pc' = "except"
    /\ exception' = "KeyError"
    /\ UNCHANGED <<threads, current_thread_id, messages>>
    /\ UNCHANGED <<ck_vars, store_vars, verify_vars>>
    /\ UNCHANGED <<inputs, user_input, sent, response, entry, obs_vars>>

\* An except clause that shows the user nothing.
ExceptOutcome_silent == NoOutcome

\* lines 149-153: what the except clause shows the user.
ExceptOutcome == Outcome("apology", ErrorMsg, 0)

\* An except clause that clears the flag.
AfterExcept_cleared == FALSE

\* The value of awaiting_verification after the except clause, which does
\* not assign it.
AfterExcept == awaiting_verification

\* lines 148-153: the exception is logged and the apology is shown
Except ==
    /\ pc = "except"
    /\ outcome' = ExceptOutcome
    /\ awaiting_verification' = AfterExcept
    /\ Return
    /\ UNCHANGED <<threads, current_thread_id, messages>>

Next ==
    \/ AddThread
    \/ \E t \in ThreadIds : SelectThread(t)
    \/ SubmitNew
    \/ SubmitResumePending
    \/ SubmitResumeAtEnd
    \/ SubmitResumeFresh
    \/ SummarizeConversation
    \/ VerifyCustomer
    \/ VerifyLookup
    \/ VerifyReturn
    \/ VerifyInterruptResumed
    \/ VerifyInterruptRaised
    \/ VerifyReExtract
    \/ ExtractPreferences
    \/ SupervisorAgent
    \/ SavePreferences
    \/ StageRaises
    \/ RespondInterrupt
    \/ RespondReply
    \/ RespondNoMessages
    \/ Except

\* The records n earlier turns have stored for one identity.
Stored(n) == [i \in 1..n |-> [id |-> i, text |-> "Customer likes Rock."]]

\* A new session of a process whose preference store holds the records that
\* earlier sessions (they share the cached graph and its store) have written
\* for customer_1.
InitPrefs ==
    /\ threads = 1
    /\ current_thread_id = 1
    /\ awaiting_verification = FALSE
    /\ messages = [t \in ThreadIds |-> <<>>]
    /\ state_messages = [t \in ThreadIds |-> <<>>]
    /\ customer_id = [t \in ThreadIds |-> NoneVal]
    /\ loaded_preferences = [t \in ThreadIds |-> <<>>]
    /\ next_node = [t \in ThreadIds |-> "fresh"]
    /\ interrupts = [t \in ThreadIds |-> <<>>]
    /\ resumes = [t \in ThreadIds |-> <<>>]
    /\ \E n \in 0..MaxStored :
          /\ store = [c \in CustomerIds |-> IF c = "customer_1" THEN Stored(n) ELSE <<>>]
          /\ uuid = n
    /\ pc = "idle"
    /\ inputs = 0
    /\ user_input = 0
    /\ sent = "none"
    /\ response = "none"
    /\ exception = "none"
    /\ entry = "none"
    /\ structured_response = NoObject
    /\ customerDetails = EmptyDict
    /\ scratch = <<>>
    /\ idx = 0
    /\ null_resume = 0
    /\ interrupt_result = 0
    /\ extract_input = NoInvoke
    /\ stages = [t \in ThreadIds |-> <<>>]
    /\ suspended_at_submit = FALSE
    /\ snapshot = NoSnapshot
    /\ outcome = NoOutcome
    /\ store_error = FALSE
    /\ pref_response = ""
    /\ responder_invocations = 0
    /\ invoices = sample_invoices
    /\ db_engine = Chinook
    /\ running_agents = {}
    /\ tool_call = NoCall
    /\ tool_result = NoResult
    /\ SingletonConstructed

SpecPrefs == InitPrefs /\ [][Next]_vars

\* The supervisor stage is one step of Spec: it answers (SupervisorAgent) or
\* raises (StageRaises).
Spec == Init /\ [][Next]_vars

\* The same program with the supervisor stage taken hand-off by hand-off.
NextDispatch ==
    \/ Next
    \/ SupervisorDelegates
    \/ SupervisorOutOfSteps

SpecDispatch == Init /\ [][NextDispatch]_vars

\* ================================================================ claims
Range(q) == { q[i] : i \in 1..Len(q) }

AfterVerification == { "extract_preferences", "supervisor_agent", "save_preferences" }

\* The handler is inside an invocation that answers a suspension of its own
\* thread with a resume.
ResumedRun == pc # "idle" /\ sent = "resume" /\ suspended_at_submit

\* C1: the stages after Verification run only with a resolved customer_id: a
\* thread whose identity was unset when the input arrived has passed through
\* verify_customer, and verify_customer has stored a non-null identity, before
\* extract_preferences, the supervisor or save_preferences runs and before a
\* reply is shown.
C1_ResolvedBeforeResponders ==
    /\ pc \in AfterVerification =>
          /\ customer_id[T] \in CustomerIds
          /\ snapshot.customer_id = NoneVal => "verify_customer" \in Range(stages[T])
    /\ \A t \in ThreadIds :
          Range(stages[t]) \cap AfterVerification # {} => customer_id[t] \in CustomerIds
    /\ pc = "respond" /\ response = "values" => customer_id[T] \in CustomerIds

\* A turn that was suspended with no identity, resumed, and has reached the
\* supervisor.
C1_Witness ==
    /\ pc = "supervisor_agent"
    /\ ResumedRun
    /\ snapshot.customer_id = NoneVal
    /\ customer_id[T] \in CustomerIds

\* C2: an input is sent as a resume exactly when its own thread has an
\* outstanding suspension, and as a new message otherwise.
C2_ResumeIffOwnSuspension ==
    pc # "idle" => (sent = "resume" <=> suspended_at_submit)

\* C3: when the lookup finds no customer the prompt is "Could not parse..."
\* if the extraction has no usable field (id, phone and email all absent) and
\* "Please provide your phone number or email" otherwise.  (The claim's last
\* part, that such an extraction never makes the stage fail, is
\* C3_NeverCrashes.)
C3_PromptByUsableField ==
    pc = "respond" /\ response = "interrupt" =>
        Last(interrupts[T]) =
            IF UsableField(structured_response) THEN PleaseProvide ELSE CouldNotParse

\* The last part of C3: no extraction makes verify_customer fail on reading
\* the fields of the response.
C3_NeverCrashes == exception # "AttributeError"

\* C4: an input that arrives while its thread has an outstanding suspension
\* enters the graph at the suspended verify_customer and is not appended to
\* the session's messages; any other input is appended to the session's
\* messages and enters the graph at its start node.
C4_ResumeBypassesEntry ==
    pc # "idle" /\ exception = "none" =>
        IF suspended_at_submit
        THEN /\ entry = "verify_customer"
             /\ HumanMessage(user_input) \notin Range(state_messages[T])
        ELSE /\ entry = "summarize_conversation"
             /\ HumanMessage(user_input) \in Range(state_messages[T])

\* The position of a stage in the order of the graph.
Rank(stage) ==
    CASE stage = "summarize_conversation" -> 1
      [] stage = "verify_customer" -> 2
      [] stage = "extract_preferences" -> 3
      [] stage = "supervisor_agent" -> 4
      [] stage = "save_preferences" -> 5

\* The stages of every turn follow the order of the graph, and only
\* verify_customer is run more than once in a turn.
StagesInOrder ==
    \A t \in ThreadIds : \A i, j \in 1..Len(stages[t]) :
        i < j => \/ Rank(stages[t][i]) < Rank(stages[t][j])
                 \/ stages[t][i] = "verify_customer" /\ stages[t][j] = "verify_customer"

\* C5: within one turn the stages run in the order summarize_conversation,
\* verify_customer (when taken), extract_preferences, supervisor_agent,
\* save_preferences; every stage but verify_customer runs at most once; and a
\* reply is returned only after the turn's save_preferences has completed.
C5_OrderedTurnEndsInSave ==
    /\ StagesInOrder
    /\ pc = "respond" /\ response = "values" =>
          /\ stages[T] # <<>>
          /\ Last(stages[T]) = "save_preferences"

\* C6: after summarize_conversation the next stage is verify_customer if and
\* only if customer_id is missing or null and extract_preferences if and only
\* if it is set; the stage always proceeds to one of the two and raises no
\* interrupt.  A call of the summarization model that raises is a failed
\* turn (C13), not a step of the stage.
C6_RouteAfterSummarize ==
    [][pc = "summarize_conversation" /\ exception' = "none" =>
          /\ pc' \in { "verify_customer", "extract_preferences" }
          /\ pc' = "verify_customer" <=> customer_id[T] = NoneVal
          /\ pc' = "extract_preferences" <=> customer_id[T] \in CustomerIds
          /\ next_node'[T] = pc'
          /\ interrupts' = interrupts
          /\ response' = response]_vars

\* Both routes of the conditional edge are taken: a thread with an identity
\* is at extract_preferences straight after summarize_conversation, in a
\* session where another run has gone to verify_customer.
C6_Witness ==
    /\ pc = "extract_preferences"
    /\ stages[T] = <<"summarize_conversation">>
    /\ customer_id[T] \in CustomerIds
    /\ \E t \in ThreadIds : t # T /\ "verify_customer" \in Range(stages[t])

\* The handler has left the graph: invoke returned or raised.
RunEnded == pc \in { "respond", "except" }

\* C7 as claimed: a thread has at most one outstanding suspension, and after
\* a resume the thread is suspended only if the resumed run itself produced a
\* new suspension.
C7_ConsumedOnResume ==
    /\ \A t \in ThreadIds : Len(interrupts[t]) <= 1
    /\ RunEnded /\ ResumedRun /\ Suspended(T) => response = "interrupt"

\* C7 as amended: a thread has at most one outstanding suspension; a resume
\* whose run resolves the identity consumes it; after a resume the thread is
\* suspended only if the resumed run produced a new suspension or failed
\* inside verify_customer, and then the suspension it answered is still the
\* outstanding one.
C7_AtMostOneSuspension ==
    /\ \A t \in ThreadIds : Len(interrupts[t]) <= 1
    /\ ResumedRun /\ pc \in AfterVerification => ~Suspended(T)
    /\ RunEnded /\ ResumedRun /\ Suspended(T) =>
          \/ response = "interrupt"
          \/ /\ pc = "except"
             /\ interrupts[T] = snapshot.interrupts
             /\ customer_id[T] = NoneVal
             /\ next_node[T] = "verify_customer"

\* A resumed run has raised a new suspension on a thread that already had
\* one answered before.
C7_Witness ==
    /\ pc = "respond"
    /\ response = "interrupt"
    /\ ResumedRun
    /\ Len(resumes[T]) >= 1
    /\ Len(interrupts[T]) = 1

\* C8: verify_customer moves on to extract_preferences only after a lookup
\* has matched a customer record, and then customer_id is that record's id
\* (the fixture phone gives "customer_1"); an unmatched attempt, whatever its
\* number, suspends with verify_customer as the resume target and the
\* identity still unset.
C8_ResolvedOnlyByMatch ==
    /\ pc \in { "verify_customer", "verify_lookup", "verify_while", "verify_reextract" } =>
          customer_id[T] = NoneVal
    /\ pc = "extract_preferences" /\ stages[T] # <<>> /\ Last(stages[T]) = "verify_customer" =>
          /\ customerDetails \in sample_customers
          /\ customerDetails \in get_customer_details(structured_response.customer_id,
                                                     structured_response.customer_phone_number,
                                                     structured_response.customer_email)
          /\ customer_id[T] = customerDetails.customer_id
          /\ structured_response.customer_phone_number = "+55 (12) 3923-5555" =>
                customer_id[T] = "customer_1"
    /\ pc = "respond" /\ response = "interrupt" =>
          /\ customerDetails = EmptyDict
          /\ customer_id[T] = NoneVal
          /\ next_node[T] = "verify_customer"
          /\ Suspended(T)

\* After two unmatched attempts the second resume carries the fixture phone
\* and the turn continues to extract_preferences as customer_1.
C8_Witness ==
    /\ pc = "extract_preferences"
    /\ ResumedRun
    /\ idx = 2
    /\ interrupt_result = user_input
    /\ structured_response.customer_phone_number = "+55 (12) 3923-5555"
    /\ customer_id[T] = "customer_1"

\* C9 as claimed: on a resume of Verification the extraction that decides a
\* lookup is given only the system instructions and the user's resume input.
C9_OnlyResumeInput ==
    pc = "verify_lookup" /\ ResumedRun =>
        extract_input = InvokeInput(SystemPrompt, <<user_input>>)

\* C9 as amended: a resume runs verify_customer again from its first
\* statement, so the first extraction is made again over the stored message
\* history; every extraction inside the retry loop is given only the system
\* instructions and the one resume value its interrupt returned, never the
\* message history, and the value of the last one is the input just
\* submitted.
C9_LoopExtractionInput ==
    /\ pc = "verify_lookup" /\ idx = 0 =>
          extract_input = InvokeInput(SystemPrompt, Contents(state_messages[T]))
    /\ pc = "verify_lookup" /\ idx > 0 =>
          /\ idx <= Len(scratch)
          /\ extract_input = InvokeInput(SystemPrompt, <<scratch[idx]>>)
    /\ pc = "verify_lookup" /\ ResumedRun /\ idx > Len(resumes[T]) =>
          scratch[idx] = user_input

\* The second resume of a thread: after the replayed steps the extraction
\* that decides the lookup was given the new input alone, while the thread
\* has a message history.
C9_Witness ==
    /\ pc = "verify_lookup"
    /\ ResumedRun
    /\ idx = 2
    /\ extract_input = InvokeInput(SystemPrompt, <<user_input>>)
    /\ Len(state_messages[T]) >= 1

\* C10: a resume that is unmatched again yields the same prompt as the
\* suspension it answered and leaves the session (messages, customer_id,
\* loaded_preferences) and the preference store as they were, however many
\* resumes came before.
C10_IdempotentResume ==
    pc = "respond" /\ response = "interrupt" /\ ResumedRun =>
        /\ interrupts[T] = snapshot.interrupts
        /\ state_messages[T] = snapshot.state_messages
        /\ customer_id[T] = snapshot.customer_id
        /\ loaded_preferences[T] = snapshot.loaded_preferences
        /\ store = snapshot.store

\* The same thread suspended for the third time, by its second unmatched
\* resume.
C10_Witness ==
    /\ pc = "respond"
    /\ response = "interrupt"
    /\ ResumedRun
    /\ Len(resumes[T]) = 2
    /\ snapshot.interrupts = <<PleaseProvide>>

\* ================================================== the lookup on its own
\* The arguments get_customer_details is applied to: every field absent,
\* empty, that of a stored customer, or that of no customer.
LookupIds == { NoneVal, "", "customer_1", "customer_3", "customer_9" }
LookupPhones == { NoneVal, "", "+55 (12) 3923-5555", "000" }
LookupEmails == { NoneVal, "", "customer1@example.com", "customer2@example.com" }
LookupArgs == { CustomerData(i, p, e) : i \in LookupIds, p \in LookupPhones, e \in LookupEmails }

\* A fresh session whose first input has passed summarize_conversation and
\* the extraction of verify_customer, which returned any of LookupArgs.
InitLookup ==
    /\ threads = 1
    /\ current_thread_id = 1
    /\ awaiting_verification = FALSE
    /\ messages = [t \in ThreadIds |-> IF t = 1 THEN <<HumanMessage(1)>> ELSE <<>>]
    /\ state_messages = [t \in ThreadIds |-> IF t = 1 THEN <<HumanMessage(1)>> ELSE <<>>]
    /\ customer_id = [t \in ThreadIds |-> NoneVal]
    /\ loaded_preferences = [t \in ThreadIds |-> <<>>]
    /\ next_node = [t \in ThreadIds |-> IF t = 1 THEN "verify_customer" ELSE "fresh"]
    /\ interrupts = [t \in ThreadIds |-> <<>>]
    /\ resumes = [t \in ThreadIds |-> <<>>]
    /\ store = [c \in CustomerIds |-> <<>>]
    /\ uuid = 0
    /\ pc = "verify_lookup"
    /\ inputs = 1
    /\ user_input = 1
    /\ sent = "new"
    /\ response = "none"
    /\ exception = "none"
    /\ entry = "summarize_conversation"
    /\ structured_response \in LookupArgs
    /\ customerDetails = EmptyDict
    /\ scratch = <<>>
    /\ idx = 0
    /\ null_resume = 0
    /\ interrupt_result = 0
    /\ extract_input = InvokeInput(SystemPrompt, <<1>>)
    /\ stages = [t \in ThreadIds |->
                    IF t = 1 THEN <<"summarize_conversation", "verify_customer">> ELSE <<>>]
    /\ suspended_at_submit = FALSE
    /\ snapshot = Snapshot(<<>>, NoneVal, <<>>, <<>>, [c \in CustomerIds |-> <<>>])
    /\ outcome = NoOutcome
    /\ store_error = FALSE
    /\ pref_response = ""
    /\ responder_invocations = 0
    /\ invoices = sample_invoices
    /\ db_engine = Chinook
    /\ running_agents = {}
    /\ tool_call = NoCall
    /\ tool_result = NoResult
    /\ SingletonConstructed

NextLookup == VerifyLookup

SpecLookup == InitLookup /\ [][NextLookup]_vars

\* A stored customer one of whose fields equals the corresponding argument,
\* the argument being provided (not None) and not empty.
FieldMatches(r, c) ==
    \/ r.customer_id \notin { NoneVal, "" } /\ r.customer_id = c.customer_id
    \/ r.customer_phone_number \notin { NoneVal, "" } /\ r.customer_phone_number = c.phone_number
    \/ r.customer_email \notin { NoneVal, "" } /\ r.customer_email = c.email

\* C11: the lookup has OR-semantics over the provided fields.  When the
\* query has executed, get_customer_details returns a customer record (one
\* that matches a provided field) whenever at least one non-empty provided
\* field equals that field of some stored customer, whatever the other
\* fields are; it returns the empty result when no provided field matches
\* any customer, and when all three fields are absent or empty.
C11_LookupOrSemantics ==
    pc = "verify_while" /\ ~store_error =>
        LET r == structured_response
        IN  /\ (\E c \in sample_customers : FieldMatches(r, c)) =>
                  /\ customerDetails \in sample_customers
                  /\ FieldMatches(r, customerDetails)
            /\ (\A c \in sample_customers : ~FieldMatches(r, c)) => customerDetails = EmptyDict
            /\ /\ r.customer_id \in { NoneVal, "" }
               /\ r.customer_phone_number \in { NoneVal, "" }
               /\ r.customer_email \in { NoneVal, "" }
               => customerDetails = EmptyDict

\* The lookup was given the id of no customer, an empty phone and the email
\* of customer_1, and returned customer_1.
C11_Witness ==
    /\ pc = "verify_while"
    /\ ~store_error
    /\ structured_response = CustomerData("customer_9", "", "customer1@example.com")
    /\ customerDetails.customer_id = "customer_1"

\* The handler is inside an invocation for a new message on a thread whose
\* identity was unset, and verify_customer has raised no interrupt yet.
FirstMessageRun == sent = "new" /\ idx = 0 /\ snapshot.customer_id = NoneVal

\* C12: on a thread with no prior identity, a message whose extracted claim
\* matches a stored customer makes the lookup return that customer (the store
\* answering), and verify_customer then sets customer_id to that customer's
\* id ("customer_1" for the email customer1@example.com), raises no
\* interrupt and is followed by extract_preferences.
C12_FirstMessageResolves ==
    [][/\ /\ pc = "verify_lookup"
          /\ FirstMessageRun
          /\ \E c \in sample_customers : FieldMatches(structured_response, c)
          /\ ~store_error'
          => /\ pc' = "verify_while"
             /\ customerDetails' \in sample_customers
             /\ FieldMatches(structured_response, customerDetails')
       /\ /\ pc = "verify_while"
          /\ FirstMessageRun
          /\ customerDetails \in sample_customers
          => /\ pc' = "extract_preferences"
             /\ next_node'[T] = "extract_preferences"
             /\ customer_id'[T] = customerDetails.customer_id
             /\ structured_response.customer_email = "customer1@example.com" =>
                   customer_id'[T] = "customer_1"
             /\ interrupts'[T] = <<>>
             /\ response' = "none"
             /\ awaiting_verification' = awaiting_verification]_vars

\* The first message of a thread gave the email of customer_1 and the turn is
\* at extract_preferences as customer_1, with no suspension.
C12_Witness ==
    /\ pc = "extract_preferences"
    /\ FirstMessageRun
    /\ Len(state_messages[T]) = 1
    /\ stages[T] = <<"summarize_conversation", "verify_customer">>
    /\ structured_response = CustomerData(NoneVal, NoneVal, "customer1@example.com")
    /\ customer_id[T] = "customer_1"
    /\ ~Suspended(T)
    /\ ~awaiting_verification

FailedTurn(t) == next_node[t] \in Stages /\ ~Suspended(t)

\* C14: a stage failure leaves the last persisted session state intact and
\* the thread usable.  The step into the except clause changes nothing of
\* the stored session or of the preference store; and, already in a session
\* with a single thread, the input that follows a failed turn is processed
\* as a new message: it is appended to the session's messages and the graph
\* is entered at its start node.
C14_FailureKeepsThreadUsable ==
    [][/\ pc' = "except" =>
             UNCHANGED <<state_messages, customer_id, loaded_preferences, store>>
       /\ pc = "idle" /\ pc' # "idle" /\ threads = 1 /\ FailedTurn(T) =>
             /\ sent' = "new"
             /\ entry' = "summarize_conversation"
             /\ state_messages'[T] = Append(state_messages[T], HumanMessage(user_input'))]_vars

\* The first half of C14 alone: whatever a failing stage did is not stored.
C14_FailedStageStoresNothing ==
    [][pc' = "except" =>
          UNCHANGED <<state_messages, customer_id, loaded_preferences, next_node, interrupts, store>>]_vars

\* C15: when the identity store errors during verify_customer's lookup, the
\* run leaves the lookup only into the except clause, so that the user is
\* shown the apology and not a suspension prompt, and the identity, the
\* digest and the outstanding prompts of the thread are as they were.
C15_StoreErrorIsFailure ==
    store_error /\ pc # "verify_while" =>
        /\ pc = "except"
        /\ customer_id[T] = snapshot.customer_id
        /\ loaded_preferences[T] = snapshot.loaded_preferences
        /\ interrupts[T] = snapshot.interrupts

\* C16: the preference log is append-only.  In every step, whatever the
\* thread, the records stored for each identity are still there, at the same
\* place and with the same id and text, so that their number never
\* decreases.
C16_AppendOnly ==
    [][\A c \in CustomerIds :
          /\ Len(store'[c]) >= Len(store[c])
          /\ \A i \in 1..Len(store[c]) : store'[c][i] = store[c][i]]_vars

\* save_preferences has just added a record for an identity that had one,
\* written in a turn of another thread.
C16_Witness ==
    /\ pc = "respond"
    /\ store # snapshot.store
    /\ Len(store[customer_id[T]]) = 2
    /\ \E t \in ThreadIds : t # T /\ customer_id[t] = customer_id[T]

\* C17: round trip.  Once save_preferences has appended a record for an
\* identity, an extract_preferences for that identity returns a digest that
\* contains the text of that record, however many records the identity had
\* before: at the end of every extract_preferences the text of the record
\* last appended for the session's identity is a line of loaded_preferences.
C17_RoundTrip ==
    pc = "supervisor_agent" /\ store[customer_id[T]] # <<>> =>
        Last(store[customer_id[T]]).text \in Range(loaded_preferences[T])

\* The digest the claims describe: the texts of all the records, in the
\* order of insertion, one per line, under the header line when there is at
\* least one record, and empty when there is none.
DigestOfAll(items) ==
    IF items = <<>> THEN <<>>
    ELSE <<PreferencesHeader>> \o [i \in 1..Len(items) |-> items[i].text]

\* C18: extract_preferences sets loaded_preferences to the texts of all the
\* records of the session's identity, in insertion order, one per line,
\* under the header line only when there is a record, and to the empty
\* string when there is none; and it writes nothing to the preference store.
C18_DigestOfAllRecords ==
    [][pc = "extract_preferences" =>
          /\ loaded_preferences'[T] = DigestOfAll(store[customer_id[T]])
          /\ store' = store
          /\ uuid' = uuid]_vars

\* The ids of all the records of a store.
AllIds(st) == UNION { { st[c][i].id : i \in 1..Len(st[c]) } : c \in CustomerIds }

\* save_preferences has appended nothing.
AppendedNothing == store = snapshot.store

\* save_preferences has appended exactly one record, under the session's
\* identity, with an id no record had.
AppendedOne ==
    LET cid == customer_id[T]
        old == snapshot.store
    IN  /\ Len(store[cid]) = Len(old[cid]) + 1
        /\ SubSeq(store[cid], 1, Len(old[cid])) = old[cid]
        /\ Last(store[cid]).id \notin AllIds(old)
        /\ \A c \in CustomerIds \ { cid } : store[c] = old[c]

\* The answers that are "no preferences found", with or without a final
\* period, when case and surrounding white space are ignored.
SaysNoPreferencesFound(r) ==
    r \in { "No preferences found.", "  NO PREFERENCES FOUND.  ", "No preferences found" }

\* C19 as claimed: save_preferences appends exactly one record with a fresh
\* id under the session's identity when the answer of the text processor is
\* not the sentinel, and nothing when the answer is "no preferences found",
\* compared ignoring case and surrounding white space.
C19_AppendUnlessNoPreferences ==
    pc = "respond" /\ pref_response # "" =>
        IF SaysNoPreferencesFound(pref_response) THEN AppendedNothing ELSE AppendedOne

\* The answers that are "no preferences found." with its final period, when
\* case and surrounding white space are ignored.
IsSentinel(r) == r \in { "No preferences found.", "  NO PREFERENCES FOUND.  " }

\* What save_preferences does, for comparison with C19: the sentinel is
\* "no preferences found." with its final period.  save_preferences appends
\* nothing when the answer, stripped and lower-cased, is exactly that; for
\* every other answer, "No preferences found" without the period included,
\* it appends exactly one record under the session's identity, with a fresh
\* id and the stripped answer as text.  No two records of the store share an
\* id.
AppendUnlessSentinel ==
    /\ pc = "respond" /\ pref_response # "" =>
          IF IsSentinel(pref_response)
          THEN AppendedNothing
          ELSE /\ AppendedOne
               /\ Last(store[customer_id[T]]).text \in { "Customer likes Jazz.", "No preferences found" }
    /\ \A c, d \in CustomerIds : \A i \in 1..Len(store[c]) : \A j \in 1..Len(store[d]) :
          store[c][i].id = store[d][j].id => c = d /\ i = j

\* The answer came with spaces around it and was appended, stripped, behind
\* the record the identity already had.
AppendedStripped ==
    /\ pc = "respond"
    /\ pref_response = " Customer likes Jazz. "
    /\ Len(store[customer_id[T]]) = 2
    /\ Last(store[customer_id[T]]) = [id |-> uuid, text |-> "Customer likes Jazz."]

\* C20: the dispatch step budget.  With a starting budget of remaining_steps
\* each hand-off to a responder consumes one unit and the hand-off after the
\* last unit is not made, so that the supervisor of one turn never invokes
\* more responders than the budget.
C20_BudgetBoundsResponders == responder_invocations <= remaining_steps

\* The sessions of the threads other than the current one.
OtherSessions ==
    [t \in ThreadIds \ { T } |->
        <<state_messages[t], customer_id[t], loaded_preferences[t], next_node[t],
          interrupts[t], resumes[t]>>]

\* The part of C21 about the checkpoints: a step of a turn reads and writes
\* the checkpoint of the current thread only, and selecting or adding a
\* thread writes no checkpoint.
C21_OtherCheckpointsUntouched ==
    [][/\ current_thread_id' = current_thread_id => OtherSessions' = OtherSessions
       /\ current_thread_id' # current_thread_id => UNCHANGED ck_vars]_vars

\* C21: no operation on one thread reads or changes another thread's
\* session, and what a thread's turns make of its session is what they would
\* make of it had the turns of the other threads not happened.  For a thread
\* that has had no turn yet that is the session a first input gives in a
\* session with no other turns: the input is appended to the thread's (empty)
\* messages as a new message and the graph is entered at its start node,
\* whatever the other threads have done before.
C21_ThreadIsolation ==
    [][/\ current_thread_id' = current_thread_id => OtherSessions' = OtherSessions
       /\ pc = "idle" /\ pc' # "idle" /\ next_node[T] = "fresh" =>
             /\ sent' = "new"
             /\ entry' = "summarize_conversation"
             /\ state_messages'[T] = <<HumanMessage(user_input')>>]_vars

\* ================================================ the responders on their own
Agents == { "Music_Catalog_Agent", "Invoice_Information_Agent" }

\* What the agents' models give their tools: a name or search term (a stored
\* one, an unknown one, the empty term), a customer id (a stored or an
\* unknown one) and an invoice id.
ToolNames == { EmptyTerm, 1, 2, 99 }
ToolCustomerIds == CustomerIds \cup { "customer_9" }
ToolInvoiceIds == { 1, 2, 99 }

\* supervisor_agent: the supervisor's model answers with hand-off tool calls,
\* to one responder or to both at once, and the responders named start
SupervisorHandsOff ==
    /\ pc = "supervisor_agent"
    /\ running_agents = {}
    /\ \E S \in SUBSET Agents :
          /\ S # {}
          /\ responder_invocations + Cardinality(S) <= MaxHandoffs
          /\ running_agents' = S
          /\ responder_invocations' = responder_invocations + Cardinality(S)
    /\ UNCHANGED <<ui_vars, ck_vars, store_vars, verify_vars, run_vars>>
    /\ UNCHANGED <<extract_input, stages, suspended_at_submit, snapshot, outcome>>
    /\ UNCHANGED <<store_error, pref_response, db_vars, tool_call, tool_result>>

\* The music catalog agent calls one of its tools: the method raises when
\* the engine is not set up and runs its query otherwise
MusicCatalogAgentCallsTool ==
    /\ pc = "supervisor_agent"
    /\ "Music_Catalog_Agent" \in running_agents
    /\ \E tool \in CatalogTools, name \in ToolNames :
          /\ tool_call' = Call(tool, name, 0, NoneVal)
          /\ IF ~db_engine.engine
             THEN tool_result' = Raised
             ELSE \E v \in MusicDatabase(db_engine, tool, name) : tool_result' = Returned(v)
    /\ UNCHANGED <<ui_vars, ck_vars, store_vars, verify_vars, run_vars>>
    /\ UNCHANGED <<extract_input, stages, suspended_at_submit, snapshot, outcome>>
    /\ UNCHANGED <<store_error, pref_response, responder_invocations>>
    /\ UNCHANGED <<db_vars, running_agents>>

\* The invoice agent calls one of its tools with the arguments its model
\* gives: the query executes, or sqlite3 raises and the method returns the
\* empty value
InvoiceInfoAgentCallsTool ==
    /\ pc = "supervisor_agent"
    /\ "Invoice_Information_Agent" \in running_agents
    /\ \E tool \in InvoiceTools, iid \in ToolInvoiceIds, cid \in ToolCustomerIds :
          LET i == IF tool = "get_employee_name_by_invoice_and_customer_id" THEN iid ELSE 0
          IN  /\ tool_call' = Call(tool, 0, i, cid)
              /\ \/ \E v \in CustomerDatabase(invoices, tool, i, cid) : tool_result' = Returned(v)
                 \/ tool_result' = ReturnedOnError(CustomerDatabase_error(tool))
    /\ UNCHANGED <<ui_vars, ck_vars, store_vars, verify_vars, run_vars>>
    /\ UNCHANGED <<extract_input, stages, suspended_at_submit, snapshot, outcome>>
    /\ UNCHANGED <<store_error, pref_response, responder_invocations>>
    /\ UNCHANGED <<db_vars, running_agents>>

\* A responder answers and hands back to the supervisor
AgentAnswers(a) ==
    /\ pc = "supervisor_agent"
    /\ a \in running_agents
    /\ running_agents' = running_agents \ { a }
    /\ UNCHANGED <<ui_vars, ck_vars, store_vars, verify_vars, run_vars>>
    /\ UNCHANGED <<extract_input, stages, suspended_at_submit, snapshot, outcome>>
    /\ UNCHANGED <<store_error, pref_response, responder_invocations>>
    /\ UNCHANGED <<db_vars, tool_call, tool_result>>

\* The first turn of a session has resolved the identity (any customer) and
\* has reached supervisor_agent; Customers.db holds the sample invoices and
\* n further ones, and the catalog engine is not set up or serves a catalog
\* of n rows a table, for any n.
InitResponders ==
    /\ threads = 1
    /\ current_thread_id = 1
    /\ awaiting_verification = FALSE
    /\ messages = [t \in ThreadIds |-> IF t = 1 THEN <<HumanMessage(1)>> ELSE <<>>]
    /\ state_messages = [t \in ThreadIds |-> IF t = 1 THEN <<HumanMessage(1)>> ELSE <<>>]
    /\ \E c \in sample_customers :
          /\ customer_id = [t \in ThreadIds |-> IF t = 1 THEN c.customer_id ELSE NoneVal]
          /\ structured_response = CustomerData(NoneVal, NoneVal, c.email)
          /\ customerDetails = c
    /\ loaded_preferences = [t \in ThreadIds |-> <<>>]
    /\ next_node = [t \in ThreadIds |-> IF t = 1 THEN "supervisor_agent" ELSE "fresh"]
    /\ interrupts = [t \in ThreadIds |-> <<>>]
    /\ resumes = [t \in ThreadIds |-> <<>>]
    /\ store = [c \in CustomerIds |-> <<>>]
    /\ uuid = 0
    /\ pc = "supervisor_agent"
    /\ inputs = 1
    /\ user_input = 1
    /\ sent = "new"
    /\ response = "none"
    /\ exception = "none"
    /\ entry = "summarize_conversation"
    /\ scratch = <<>>
    /\ idx = 0
    /\ null_resume = 0
    /\ interrupt_result = 0
    /\ extract_input = InvokeInput(SystemPrompt, <<1>>)
    /\ stages = [t \in ThreadIds |->
                    IF t = 1 THEN <<"summarize_conversation", "verify_customer", "extract_preferences">>
                    ELSE <<>>]
    /\ suspended_at_submit = FALSE
    /\ snapshot = Snapshot(<<>>, NoneVal, <<>>, <<>>, [c \in CustomerIds |-> <<>>])
    /\ outcome = NoOutcome
    /\ store_error = FALSE
    /\ pref_response = ""
    /\ responder_invocations = 0
    /\ \E n \in 0..MaxRows :
          /\ invoices = Invoices(n)
          /\ db_engine \in { NoEngine, Catalog(n) }
    /\ running_agents = {}
    /\ tool_call = NoCall
    /\ tool_result = NoResult
    /\ SingletonConstructed

\* The supervisor stage with its responders and their tools, up to the
\* supervisor's answer.
NextResponders ==
    \/ SupervisorHandsOff
    \/ MusicCatalogAgentCallsTool
    \/ InvoiceInfoAgentCallsTool
    \/ \E a \in Agents : AgentAnswers(a)
    \/ SupervisorAgent

SpecResponders == InitResponders /\ [][NextResponders]_vars

\* C22: billing lookups are scoped to the session's identity.  Every invoice
\* row the invoice agent's lookups return is of the customer whose id is the
\* session's customer_id, and an employee name they return is that of an
\* invoice of that customer.
C22_BillingScopedToIdentity ==
    /\ tool_call.tool \in { "get_invoices_by_customer_sorted_by_date",
                            "get_invoices_sorted_by_unit_price" } =>
          \A i \in 1..Len(tool_result.value) :
              tool_result.value[i].customer_id = customer_id[T]
    /\ tool_call.tool = "get_employee_name_by_invoice_and_customer_id" /\ tool_result.value # "" =>
          \E r \in invoices :
              /\ r.customer_id = customer_id[T]
              /\ r.invoice_id = tool_call.invoice_id
              /\ r.employee_name = tool_result.value

\* What the lookups do, for comparison with C22: the rows and the name are
\* those of the customer id the agent's model passed as argument.
BillingScopedToArgument ==
    /\ tool_call.tool \in { "get_invoices_by_customer_sorted_by_date",
                            "get_invoices_sorted_by_unit_price" } =>
          \A i \in 1..Len(tool_result.value) :
              tool_result.value[i].customer_id = tool_call.customer_id
    /\ tool_call.tool = "get_employee_name_by_invoice_and_customer_id" /\ tool_result.value # "" =>
          \E r \in invoices :
              /\ r.customer_id = tool_call.customer_id
              /\ r.invoice_id = tool_call.invoice_id
              /\ r.employee_name = tool_result.value

\* C23: within one turn the supervisor invokes the responders one at a time.
\* At no point are two responders (the catalog agent, the invoice agent) in
\* progress for the thread, and a responder is in progress only inside the
\* supervisor stage, the one stage of the turn that is running.
C23_RespondersOneAtATime ==
    /\ Cardinality(running_agents) <= 1
    /\ running_agents # {} => pc = "supervisor_agent" /\ next_node[T] = "supervisor_agent"

\* The part of C23 about the stages: responders run only inside the
\* supervisor stage, and the thread is pending at no other stage meanwhile.
RespondersInsideSupervisor ==
    running_agents # {} => pc = "supervisor_agent" /\ next_node[T] = "supervisor_agent"

\* The session's messages when the running invocation entered the graph.
HistoryAtEntry ==
    IF sent = "new" THEN Append(snapshot.state_messages, HumanMessage(user_input))
    ELSE snapshot.state_messages

\* summarize_conversation is the stage that has just completed.
JustSummarized ==
    /\ pc \in { "verify_customer", "extract_preferences" }
    /\ stages[T] = <<"summarize_conversation">>

RowTools ==
    { "get_albums_by_artist", "get_tracks_by_artist", "get_songs_by_genre",
      "search_tracks", "search_albums" }
ListTools == { "get_all_artists", "get_all_genres", "get_all_albums" }
CheckTools == { "check_for_track", "check_for_album", "check_for_artist" }
InvoiceListTools ==
    { "get_invoices_by_customer_sorted_by_date", "get_invoices_sorted_by_unit_price" }

\* The number of rows the last call returned.
RowCount ==
    CASE tool_call.tool \in RowTools -> Cardinality(tool_result.value)
      [] tool_call.tool \in ListTools \cup InvoiceListTools -> Len(tool_result.value)
      [] OTHER -> 0

\* C25 as claimed: every catalog and billing query that returns returns at
\* most 5 rows, whatever the stores hold and whatever its argument.
C25_AtMostFiveRows ==
    tool_call.tool \in RowTools \cup ListTools \cup InvoiceListTools /\ ~tool_result.raised =>
        RowCount <= 5

\* C25 as amended: a catalog query raises when the engine was not set up and
\* not otherwise; one that returns rows or names returns at most 5, and all
\* of them when no more than 5 match; a check returns a boolean.  The
\* invoice queries have no bound: when the query executes they return every
\* invoice of the customer id given, and the empty list when sqlite3 raises.
C25_CatalogRowsBounded ==
    /\ tool_call.tool \in CatalogTools =>
          /\ tool_result.raised <=> ~db_engine.engine
          /\ ~tool_result.error
    /\ tool_call.tool \in RowTools \cup ListTools /\ ~tool_result.raised => RowCount <= Limit
    /\ tool_call.tool = "get_albums_by_artist" /\ ~tool_result.raised =>
          LET matching == { a \in db_engine.Album :
                              \E r \in db_engine.Artist :
                                  r.ArtistId = a.ArtistId /\ r.Name = tool_call.name }
          IN  RowCount = IF Cardinality(matching) <= Limit THEN Cardinality(matching) ELSE Limit
    /\ tool_call.tool \in ListTools /\ ~tool_result.raised =>
          \A i, j \in 1..Len(tool_result.value) :
              i < j => tool_result.value[i] <= tool_result.value[j]
    /\ tool_call.tool \in CheckTools /\ ~tool_result.raised => tool_result.value \in BOOLEAN
    /\ tool_call.tool \in InvoiceListTools =>
          /\ ~tool_result.raised
          /\ RowCount = IF tool_result.error THEN 0
                        ELSE Cardinality({ r \in invoices : r.customer_id = tool_call.customer_id })

\* A query for the albums of an artist who has more than 5 has returned 5
\* of them, in a session whose invoice table holds more than 5 invoices of
\* one customer.
C25_Witness ==
    /\ tool_call.tool = "get_albums_by_artist"
    /\ ~tool_result.raised
    /\ Cardinality({ a \in db_engine.Album : a.ArtistId = 1 }) > 5
    /\ tool_call.name = 1
    /\ RowCount = 5
    /\ Cardinality({ r \in invoices : r.customer_id = "customer_1" }) > 5

\* C26: get_invoices_sorted_by_unit_price(customer_id) returns exactly the
\* invoices whose customer_id is the argument, each once, ordered by amount
\* in descending order, and the empty list when the customer has no invoice
\* or the store errors.
C26_SortedByAmount ==
    tool_call.tool = "get_invoices_sorted_by_unit_price" =>
        LET rows == tool_result.value
            of_customer == { r \in invoices : r.customer_id = tool_call.customer_id }
        IN  /\ ~tool_result.raised
            /\ tool_result.error => rows = <<>>
            /\ ~tool_result.error =>
                  /\ Range(rows) = of_customer
                  /\ Len(rows) = Cardinality(of_customer)
                  /\ \A i, j \in 1..Len(rows) : i < j => rows[i].amount >= rows[j].amount
            /\ of_customer = {} => rows = <<>>

\* The invoices of customer_1, three or more with two of the same amount,
\* were returned with invoice_1, the oldest and largest, in front of
\* invoice_4.
C26_Witness ==
    /\ tool_call.tool = "get_invoices_sorted_by_unit_price"
    /\ tool_call.customer_id = "customer_1"
    /\ ~tool_result.error
    /\ Len(tool_result.value) >= 3
    /\ tool_result.value[1].invoice_id = 1
    /\ tool_result.value[2].amount = tool_result.value[1].amount
    /\ Last(tool_result.value).invoice_id = 4

\* The handler is inside a turn on a thread whose identity was resolved when
\* the input arrived.
LaterTurn == pc # "idle" /\ snapshot.customer_id \in CustomerIds

VerifyStages == { "verify_customer", "verify_lookup", "verify_while", "verify_reextract" }

ResumeRaised == pc = "except" /\ ResumedRun /\ exception # "KeyError"

\* C28 as claimed: when an invocation that delivers resume input fails with
\* an exception, the thread's suspension remains outstanding and the
\* caller's flag stays set.
C28_FailedResumeKeepsSuspension ==
    ResumeRaised =>
        /\ Suspended(T)
        /\ interrupts[T] = snapshot.interrupts
        /\ awaiting_verification

\* C28 as amended: when an invocation that delivers resume input raises, the
\* caller's flag stays set, the apology is shown and the next input is again
\* sent as a resume.  The thread's suspension remains outstanding, with the
\* same prompt, exactly when the failure was inside verify_customer; when
\* the resume has resolved the identity and a later stage raised, the thread
\* has no suspension, it is pending at the stage that raised, and the flag
\* is set all the same.
C28_FailedResumeKeepsFlag ==
    [][ResumeRaised =>
          /\ awaiting_verification
          /\ Suspended(T) <=> next_node[T] = "verify_customer"
          /\ Suspended(T) => interrupts[T] = snapshot.interrupts /\ customer_id[T] = NoneVal
          /\ ~Suspended(T) =>
                /\ customer_id[T] \in CustomerIds
                /\ next_node[T] \in { "supervisor_agent", "save_preferences" }
          /\ pc' = "idle"
          /\ outcome' = Outcome("apology", ErrorMsg, 0)
          /\ awaiting_verification'
          /\ SendAsResume'
          /\ UNCHANGED <<ck_vars, store, current_thread_id>>]_vars

\* The verification model raised on the resume input: the handler is in its
\* except clause, the prompt is still outstanding and the flag is set.
C28_Witness ==
    /\ ResumeRaised
    /\ exception = "ModelError"
    /\ Suspended(T)
    /\ next_node[T] = "verify_customer"
    /\ awaiting_verification

\* The resume resolved the identity and the supervisor raised: the flag is
\* set and the thread has no suspension.
C28_ResolvedThenRaised ==
    /\ ResumeRaised
    /\ ~Suspended(T)
    /\ next_node[T] = "supervisor_agent"
    /\ awaiting_verification

\* The values given as resume input in the running turn.
ResumeInputs == Range(scratch) \cup { user_input }

\* C29: resume inputs given during verification never enter the session's
\* messages.  In a turn that was suspended and resumed and has reached
\* save_preferences, no message of the user in the history is a resume
\* input, and the last user-authored message, the one save_preferences sends
\* to the preference model, is the message that started the turn.
C29_ResumeInputsNotInHistory ==
    pc = "save_preferences" /\ ResumedRun =>
        LET sent_to_model == last_human_message(state_messages[T])
        IN  /\ sent_to_model.role = "human"
            /\ sent_to_model = Last(snapshot.state_messages)
            /\ sent_to_model.content \notin ResumeInputs
            /\ \A i \in 1..Len(state_messages[T]) :
                  state_messages[T][i].role = "human" =>
                      state_messages[T][i].content \notin ResumeInputs

\* The same for the turns that a message started (the thread had a message
\* when the resume arrived), for comparison with C29.
ResumeInputsNotInHistory ==
    pc = "save_preferences" /\ ResumedRun /\ snapshot.state_messages # <<>> =>
        LET sent_to_model == last_human_message(state_messages[T])
        IN  /\ sent_to_model.role = "human"
            /\ sent_to_model = Last(snapshot.state_messages)
            /\ sent_to_model.content \notin ResumeInputs
            /\ \A i \in 1..Len(state_messages[T]) :
                  state_messages[T][i].role = "human" =>
                      state_messages[T][i].content \notin ResumeInputs

\* extract_preferences is the stage that has just completed.
JustExtracted ==
    /\ pc = "supervisor_agent"
    /\ stages[T] # <<>>
    /\ Last(stages[T]) = "extract_preferences"

\* save_preferences has written under the session's identity only.
WritesOwnNamespace ==
    pc = "respond" /\ pref_response # "" =>
        \A c \in CustomerIds \ { customer_id[T] } : store[c] = snapshot.store[c]

\* C30: preference records are partitioned by identity.  save_preferences
\* writes only under the session's customer_id; the digest extract_preferences
\* loads for an identity is made of the records of that identity alone (it is
\* empty when the identity has none, whatever the others have); and every
\* record written for the identity, on whatever thread, is a line of the
\* digest loaded for it on any other thread.
C30_PartitionedByIdentity ==
    /\ WritesOwnNamespace
    /\ JustExtracted =>
          /\ store[customer_id[T]] = <<>> => loaded_preferences[T] = <<>>
          /\ loaded_preferences[T] = DigestOfAll(store[customer_id[T]])

\* What holds, for comparison with C30: the digest is made of the records of
\* the session's identity alone, the first SearchLimit of them.
PartitionedUpToLimit ==
    /\ WritesOwnNamespace
    /\ JustExtracted =>
          /\ store[customer_id[T]] = <<>> => loaded_preferences[T] = <<>>
          /\ loaded_preferences[T] =
                DigestOfAll(SubSeq(store[customer_id[T]], 1,
                                   Min(Len(store[customer_id[T]]), SearchLimit)))

\* A thread has loaded an empty digest for its identity while another
\* identity has a record, written on another thread.
OtherIdentityNotLoaded ==
    /\ JustExtracted
    /\ loaded_preferences[T] = <<>>
    /\ \E t \in ThreadIds \ { T } :
          /\ customer_id[t] \in CustomerIds \ { customer_id[T] }
          /\ store[customer_id[t]] # <<>>

\* C31: a turn that ends in a suspension has no effect beyond the suspension.
\* When the response carries an interrupt, the preference store is as it was
\* at submit, no responder has run, the thread's customer_id is unset, and
\* the step that shows the prompt leaves the transcripts, the store and the
\* identities alone; within a run the transcript changes only by the user's
\* input at submit and by the assistant's message of a reply.
C31_SuspensionHasNoOtherEffect ==
    [][/\ pc = "respond" /\ response = "interrupt" =>
             /\ store = snapshot.store
             /\ responder_invocations = 0
             /\ customer_id[T] = NoneVal
             /\ Last(messages[T]) = HumanMessage(user_input)
             /\ messages' = messages
             /\ store' = store
             /\ customer_id' = customer_id
       /\ messages' # messages =>
             \/ /\ pc = "idle"
                /\ messages' = [messages EXCEPT ![T] = Append(@, HumanMessage(user_input'))]
             \/ pc = "respond" /\ response = "values"]_vars

\* A resumed turn is suspended again, in a session where a turn of another
\* thread has stored a preference record.
C31_Witness ==
    /\ pc = "respond"
    /\ response = "interrupt"
    /\ sent = "resume"
    /\ suspended_at_submit
    /\ \E c \in CustomerIds : store[c] # <<>>

\* ================================================ CustomerDatabase()
\* The constructor calls of CustomerDatabase, one statement a step.  What a
\* step of a constructor leaves alone: the session, the graph and the catalog.
SessionUnchanged ==
    /\ UNCHANGED <<ui_vars, ck_vars, store_vars, verify_vars, run_vars>>
    /\ UNCHANGED <<extract_input, stages, suspended_at_submit, snapshot, outcome>>
    /\ UNCHANGED <<store_error, pref_response, responder_invocations>>
    /\ UNCHANGED <<db_engine, running_agents, tool_call, tool_result>>

\* A thread calls CustomerDatabase().
Construct(c) ==
    /\ ctor[c].pc = "idle"
    /\ ctor[c].calls < MaxConstructions
    /\ ctor' = [ctor EXCEPT ![c] = CallerAt("new_9", 0, @.calls + 1)]
    /\ UNCHANGED <<cls_instance, cls_lock, initialized, setup_runs, returned, invoices>>
    /\ SessionUnchanged

\* __new__ line 9: if cls._instance is None, outside the lock
NewCheck(c) ==
    /\ ctor[c].pc = "new_9"
    /\ ctor' = [ctor EXCEPT ![c].pc = IF cls_instance = NoInstance THEN "new_10" ELSE "new_14"]
    /\ UNCHANGED <<cls_instance, cls_lock, initialized, setup_runs, returned, invoices>>
    /\ SessionUnchanged

\* __new__ line 10: with cls._lock
NewAcquire(c) ==
    /\ ctor[c].pc = "new_10"
    /\ cls_lock = Unlocked
    /\ cls_lock' = c
    /\ ctor' = [ctor EXCEPT ![c].pc = "new_11"]
    /\ UNCHANGED <<cls_instance, initialized, setup_runs, returned, invoices>>
    /\ SessionUnchanged

\* __new__ line 11: if cls._instance is None, inside the lock; the lock is
\* released on the way out when it is not
NewRecheck(c) ==
    /\ ctor[c].pc = "new_11"
    /\ IF cls_instance = NoInstance
       THEN /\ ctor' = [ctor EXCEPT ![c].pc = "new_12"]
            /\ cls_lock' = cls_lock
       ELSE /\ ctor' = [ctor EXCEPT ![c].pc = "new_14"]
            /\ cls_lock' = Unlocked
    /\ UNCHANGED <<cls_instance, initialized, setup_runs, returned, invoices>>
    /\ SessionUnchanged

\* __new__ line 12: cls._instance = super().__new__(cls), an object without
\* attributes
NewCreate(c) ==
    /\ ctor[c].pc = "new_12"
    /\ initialized' = Append(initialized, "unset")
    /\ cls_instance' = Len(initialized) + 1
    /\ ctor' = [ctor EXCEPT ![c].pc = "new_13"]
    /\ UNCHANGED <<cls_lock, setup_runs, returned, invoices>>
    /\ SessionUnchanged

\* __new__ line 13: cls._instance._initialized = False, and the end of the
\* with block
NewSetFlag(c) ==
    /\ ctor[c].pc = "new_13"
    /\ initialized' = [initialized EXCEPT ![cls_instance] = "False"]
    /\ cls_lock' = Unlocked
    /\ ctor' = [ctor EXCEPT ![c].pc = "new_14"]
    /\ UNCHANGED <<cls_instance, setup_runs, returned, invoices>>
    /\ SessionUnchanged

\* __new__ line 14: return cls._instance; the object is then passed to
\* __init__
NewReturn(c) ==
    /\ ctor[c].pc = "new_14"
    /\ ctor' = [ctor EXCEPT ![c].pc = "init_17", ![c].self = cls_instance]
    /\ UNCHANGED <<cls_instance, cls_lock, initialized, setup_runs, returned, invoices>>
    /\ SessionUnchanged

\* __init__ line 17: if not self._initialized; reading the attribute of an
\* object that has none raises AttributeError
InitCheck(c) ==
    /\ ctor[c].pc = "init_17"
    /\ LET flag == initialized[ctor[c].self] IN
          /\ ctor' = [ctor EXCEPT ![c].pc =
                         CASE flag = "unset" -> "AttributeError"
                           [] flag = "False" -> "init_18"
                           [] flag = "True"  -> "done"]
          /\ returned' = IF flag = "True" THEN returned \cup { ctor[c].self } ELSE returned
    /\ UNCHANGED <<cls_instance, cls_lock, initialized, setup_runs, invoices>>
    /\ SessionUnchanged

\* __init__ lines 18-19: the print and self.db_path
InitPrint(c) ==
    /\ ctor[c].pc = "init_18"
    /\ ctor' = [ctor EXCEPT ![c].pc = "init_20"]
    /\ UNCHANGED <<cls_instance, cls_lock, initialized, setup_runs, returned, invoices>>
    /\ SessionUnchanged

\* __init__ line 20: self._initialized = True
InitSetFlag(c) ==
    /\ ctor[c].pc = "init_20"
    /\ initialized' = [initialized EXCEPT ![ctor[c].self] = "True"]
    /\ ctor' = [ctor EXCEPT ![c].pc = "init_21"]
    /\ UNCHANGED <<cls_instance, cls_lock, setup_runs, returned, invoices>>
    /\ SessionUnchanged

\* __init__ line 21 and _setup_database: the tables are created if they do
\* not exist and the sample data is inserted
SetupDatabase(c) ==
    /\ ctor[c].pc = "init_21"
    /\ setup_runs' = setup_runs + 1
    /\ invoices' = populate_invoices_sample_data(invoices)
    /\ returned' = returned \cup { ctor[c].self }
    /\ ctor' = [ctor EXCEPT ![c].pc = "done"]
    /\ UNCHANGED <<cls_instance, cls_lock, initialized>>
    /\ SessionUnchanged

\* The call has returned the object to its caller, or has raised.
ConstructorEnds(c) ==
    /\ ctor[c].pc \in { "done", "AttributeError" }
    /\ ctor' = [ctor EXCEPT ![c].pc = "idle"]
    /\ UNCHANGED <<cls_instance, cls_lock, initialized, setup_runs, returned, invoices>>
    /\ SessionUnchanged

\* A process in which CustomerDatabase has not been constructed; Customers.db
\* is a new file or the file an earlier process has left.
InitSingleton ==
    /\ threads = 1
    /\ current_thread_id = 1
    /\ awaiting_verification = FALSE
    /\ messages = [t \in ThreadIds |-> <<>>]
    /\ state_messages = [t \in ThreadIds |-> <<>>]
    /\ customer_id = [t \in ThreadIds |-> NoneVal]
    /\ loaded_preferences = [t \in ThreadIds |-> <<>>]
    /\ next_node = [t \in ThreadIds |-> "fresh"]
    /\ interrupts = [t \in ThreadIds |-> <<>>]
    /\ resumes = [t \in ThreadIds |-> <<>>]
    /\ store = [c \in CustomerIds |-> <<>>]
    /\ uuid = 0
    /\ pc = "idle"
    /\ inputs = 0
    /\ user_input = 0
    /\ sent = "none"
    /\ response = "none"
    /\ exception = "none"
    /\ entry = "none"
    /\ structured_response = NoObject
    /\ customerDetails = EmptyDict
    /\ scratch = <<>>
    /\ idx = 0
    /\ null_resume = 0
    /\ interrupt_result = 0
    /\ extract_input = NoInvoke
    /\ stages = [t \in ThreadIds |-> <<>>]
    /\ suspended_at_submit = FALSE
    /\ snapshot = NoSnapshot
    /\ outcome = NoOutcome
    /\ store_error = FALSE
    /\ pref_response = ""
    /\ responder_invocations = 0
    /\ invoices \in { {}, sample_invoices }
    /\ db_engine = Chinook
    /\ running_agents = {}
    /\ tool_call = NoCall
    /\ tool_result = NoResult
    /\ cls_instance = NoInstance
    /\ cls_lock = Unlocked
    /\ initialized = <<>>
    /\ setup_runs = 0
    /\ returned = {}
    /\ ctor = [c \in Constructors |-> CallerAt("idle", 0, 0)]

NextSingleton ==
    \E c \in Constructors :
        \/ Construct(c)
        \/ NewCheck(c)
        \/ NewAcquire(c)
        \/ NewRecheck(c)
        \/ NewCreate(c)
        \/ NewSetFlag(c)
        \/ NewReturn(c)
        \/ InitCheck(c)
        \/ InitPrint(c)
        \/ InitSetFlag(c)
        \/ SetupDatabase(c)
        \/ ConstructorEnds(c)

SpecSingleton == InitSingleton /\ [][NextSingleton]_vars

\* C32: however many threads construct CustomerDatabase, however often,
\* every constructor call yields the same one object, no caller reads the
\* object while it has no _initialized attribute, and _setup_database has
\* run at most once and has run once all the calls have ended.
C32_OneInstanceOneSetup ==
    /\ Cardinality(returned) <= 1
    /\ \A c \in Constructors : ctor[c].pc # "AttributeError"
    /\ setup_runs <= 1
    /\ (/\ \A c \in Constructors : ctor[c].pc = "idle"
        /\ \E c \in Constructors : ctor[c].calls > 0) => setup_runs = 1

\* What the lock does give: one object is created, whatever the calls.
OneObjectCreated ==
    /\ Len(initialized) <= 1
    /\ Cardinality(returned) <= 1

\* _setup_database has run twice.
SetupRanTwice == setup_runs = 2

\* A caller has read _initialized of an object that has none.
ObservedWithoutFlag == \E c \in Constructors : ctor[c].pc = "AttributeError"

====
